---- MODULE Spec2Model ----
(***************************************************************************)
(* Model of the comment automation engine of replion-backend:              *)
(*   src/src/services/automation-engine.service.ts  (AutomationEngine)     *)
(*   src/unnamed/part_000                           (webhook controller)   *)
(*   src/src/services/webhook.subscription.service.ts (matchKeyword)       *)
(*   src/src/services/ai.service.ts                 (isAIEnabled)          *)
(*                                                                         *)
(* Strings the code computes on (comment text, keywords, templates,        *)
(* response texts) are sequences of one-character strings.  Messages that  *)
(* are only stored and compared are sequences of string pieces, the        *)
(* concatenation of the code's template literals.  A nullable column is a  *)
(* sequence of length 0 (null) or 1 (the value).                           *)
(***************************************************************************)
EXTENDS Integers, Sequences, FiniteSets, TLC

VARIABLES
    automation,   \* Automation rows: status, type, limits, counters, user plan
    triggers,     \* AutomationTrigger rows of each automation, in stored order
    logs,         \* AutomationLog rows, by (automationId, targetId), in insertion order
    calls,        \* external calls made so far (generate / dm / reply / like), by (automation, comment)
    now,          \* the server clock, in hours since the start of day 0
    run,          \* the invocation in progress (a webhook delivery or a batch run), or idle
    last,         \* what the most recent processing step returned / did
    res,          \* the statuses sent to the upstream sender for the latest webhook delivery
    faults,       \* how many loop iterations met a throwing store so far
    inflight,     \* concurrent invocations, each at its position in processing one comment
    probe         \* the arguments and the result of a call of one of the pure helpers

vars == <<automation, triggers, logs, calls, now, run, last, res, faults, inflight, probe>>

----------------------------------------------------------------------------
(* Bounds of the model *)

NumComments == 2

(* Scaling of the calendar: hours per day in the model (24 on the server). *)
HoursPerDay == 2

(* The last hour the clock reaches. *)
MaxNow == 2

(* How many loop iterations may meet a throwing store in one behaviour. *)
MaxFaults == 1

(* How many invocations may be in progress at the same time. *)
MaxInflight == 2

(* Longest text, longest keyword and longest template the pure helpers are *)
(* called with, and the longest trigger list.                              *)
MaxTextLen == 2
MaxKeywordLen == 2
MaxTemplateLen == 2
MaxTriggers == 2

(* The ids of the Automation rows in the store *)
Automations == DOMAIN automation
Comments == 1..NumComments
Posts == {1, 2}

None == <<>>
Some(x) == <<x>>

----------------------------------------------------------------------------
(* Strings *)

Lower(ch) == CASE ch = "A" -> "a" [] ch = "B" -> "b" [] ch = "D" -> "d"
               [] ch = "M" -> "m" [] ch = "H" -> "h" [] ch = "C" -> "c"
               [] OTHER -> ch

toLowerCase(s) == [i \in DOMAIN s |-> Lower(s[i])]

startsWith(s, k) == Len(k) <= Len(s) /\ SubSeq(s, 1, Len(k)) = k

endsWith(s, k) == Len(k) <= Len(s) /\ SubSeq(s, Len(s) - Len(k) + 1, Len(s)) = k

includes(s, k) == \E i \in 0..(Len(s) - Len(k)) : SubSeq(s, i + 1, i + Len(k)) = k

IsSpace(ch) == ch = " "

RECURSIVE trimStart(_)
trimStart(s) == IF s # <<>> /\ IsSpace(s[1]) THEN trimStart(Tail(s)) ELSE s

RECURSIVE trimEnd(_)
trimEnd(s) == IF s # <<>> /\ IsSpace(s[Len(s)]) THEN trimEnd(SubSeq(s, 1, Len(s) - 1)) ELSE s

trim(s) == trimEnd(trimStart(s))

RECURSIVE replaceAll(_, _, _)
replaceAll(s, pat, rep) ==
    IF Len(s) < Len(pat) THEN s
    ELSE IF SubSeq(s, 1, Len(pat)) = pat
         THEN rep \o replaceAll(SubSeq(s, Len(pat) + 1, Len(s)), pat, rep)
         ELSE <<s[1]>> \o replaceAll(Tail(s), pat, rep)

RECURSIVE join(_, _)
join(parts, sep) ==
    IF parts = <<>> THEN <<>>
    ELSE IF Len(parts) = 1 THEN parts[1]
    ELSE parts[1] \o sep \o join(Tail(parts), sep)

Digit(n) == CASE n = 0 -> "0" [] n = 1 -> "1" [] n = 2 -> "2" [] n = 3 -> "3"
              [] n = 4 -> "4" [] n = 5 -> "5" [] n = 6 -> "6" [] n = 7 -> "7"
              [] n = 8 -> "8" [] OTHER -> "9"

PH_USERNAME == <<"{", "u", "s", "e", "r", "n", "a", "m", "e", "}">>
PH_COMMENT == <<"{", "c", "o", "m", "m", "e", "n", "t", "}">>
PH_TIME == <<"{", "t", "i", "m", "e", "}">>
STR_DM == <<"D", "M">>
(* variant: the DM text is recorded without a label *)
PREFIX_DM_none == <<>>

PREFIX_DM == <<"D", "M", ":", " ">>
PREFIX_COMMENT == <<"C", "o", "m", "m", "e", "n", "t", ":", " ">>
SEP_BAR == <<" ", "|", " ">>

----------------------------------------------------------------------------
(* Keyword matcher: InstagramPlatformService.matchKeyword *)

(* new RegExp(keyword): the patterns of the model are literal characters,  *)
(* "." (any character) and "(", which, never closed, fails to compile.     *)
(* variant: every pattern compiles *)
RegexCompiles_always(keyword) == TRUE

RegexCompiles(keyword) == \A i \in DOMAIN keyword : keyword[i] # "("

RegexCharMatches(p, ch, caseSensitive) ==
    \/ p = "."
    \/ IF caseSensitive THEN p = ch ELSE Lower(p) = Lower(ch)

RegexTest(keyword, text, caseSensitive) ==
    \E i \in 0..(Len(text) - Len(keyword)) :
        \A j \in 1..Len(keyword) : RegexCharMatches(keyword[j], text[i + j], caseSensitive)

(* variant: an unknown match type compares the whole strings *)
matchKeyword_unknownIsExact(text, keyword, matchType, caseSensitive) ==
    LET searchText == IF caseSensitive THEN text ELSE toLowerCase(text)
        searchKeyword == IF caseSensitive THEN keyword ELSE toLowerCase(keyword)
    IN  CASE matchType = "CONTAINS" -> includes(searchText, searchKeyword)
          [] matchType = "STARTS_WITH" -> startsWith(searchText, searchKeyword)
          [] matchType = "ENDS_WITH" -> endsWith(searchText, searchKeyword)
          [] matchType = "REGEX" ->
                IF RegexCompiles(keyword) THEN RegexTest(keyword, text, caseSensitive)
                ELSE FALSE
          [] OTHER -> searchText = searchKeyword

matchKeyword(text, keyword, matchType, caseSensitive) ==
    LET searchText == IF caseSensitive THEN text ELSE toLowerCase(text)
        searchKeyword == IF caseSensitive THEN keyword ELSE toLowerCase(keyword)
    IN  CASE matchType = "EXACT" -> searchText = searchKeyword
          [] matchType = "CONTAINS" -> includes(searchText, searchKeyword)
          [] matchType = "STARTS_WITH" -> startsWith(searchText, searchKeyword)
          [] matchType = "ENDS_WITH" -> endsWith(searchText, searchKeyword)
          [] matchType = "REGEX" ->
                IF RegexCompiles(keyword) THEN RegexTest(keyword, text, caseSensitive)
                ELSE FALSE
          [] OTHER -> includes(searchText, searchKeyword)

(* variant: the controller's copy answers false for an unknown match type *)
matchKeywordController_unknownIsFalse(text, keyword, matchType, caseSensitive) ==
    LET searchText == IF caseSensitive THEN text ELSE toLowerCase(text)
        searchKeyword == IF caseSensitive THEN keyword ELSE toLowerCase(keyword)
    IN  CASE matchType = "EXACT" -> searchText = searchKeyword
          [] matchType = "CONTAINS" -> includes(searchText, searchKeyword)
          [] matchType = "STARTS_WITH" -> startsWith(searchText, searchKeyword)
          [] matchType = "ENDS_WITH" -> endsWith(searchText, searchKeyword)
          [] matchType = "REGEX" ->
                IF RegexCompiles(keyword) THEN RegexTest(keyword, text, caseSensitive)
                ELSE FALSE
          [] OTHER -> FALSE

(* The webhook controller's own matchKeyword (part_000, lines 23-51), the  *)
(* function its AUTO_LIKE branch calls                                     *)
matchKeywordController(text, keyword, matchType, caseSensitive) ==
    LET searchText == IF caseSensitive THEN text ELSE toLowerCase(text)
        searchKeyword == IF caseSensitive THEN keyword ELSE toLowerCase(keyword)
    IN  CASE matchType = "EXACT" -> searchText = searchKeyword
          [] matchType = "CONTAINS" -> includes(searchText, searchKeyword)
          [] matchType = "STARTS_WITH" -> startsWith(searchText, searchKeyword)
          [] matchType = "ENDS_WITH" -> endsWith(searchText, searchKeyword)
          [] matchType = "REGEX" ->
                IF RegexCompiles(keyword) THEN RegexTest(keyword, text, caseSensitive)
                ELSE FALSE
          [] OTHER -> includes(searchText, searchKeyword)

----------------------------------------------------------------------------
(* The comments the platform holds: id, text, author *)

CommentText(c) == IF c % 2 = 1 THEN <<"A", "b">> ELSE <<"b", "b">>
CommentUsername(c) == <<"u", Digit(c)>>
CommentPost(c) == IF c <= 2 THEN 1 ELSE 2

(* getMediaComments(postId): the comments of the post, oldest first *)
RECURSIVE CommentsFrom(_, _)
CommentsFrom(p, c) ==
    IF c > NumComments THEN <<>>
    ELSE (IF CommentPost(c) = p THEN <<c>> ELSE <<>>) \o CommentsFrom(p, c + 1)

getMediaComments(p) == CommentsFrom(p, 1)

----------------------------------------------------------------------------
(* Rows and their columns *)

Keyword(kw, mt, cs) == [keyword |-> kw, matchType |-> mt, caseSensitive |-> cs]

Response(rt, msg) == [responseType |-> rt, customMessage |-> msg]

Trigger(post, kw, resp, reply, active) ==
    [postId |-> post, keyword |-> kw, response |-> resp, commentReply |-> reply,
     isActive |-> active]

Automation(st, ty, daily, hourly, plan) ==
    [status |-> st, type |-> ty, dailyLimit |-> daily, hourlyLimit |-> hourly,
     plan |-> plan, totalExecutions |-> 0, successfulExecutions |-> 0,
     failedExecutions |-> 0, lastExecutedAt |-> None]

Call(kind, ok, text) == [kind |-> kind, ok |-> ok, text |-> text]

Result(processed, message, actions) ==
    [processed |-> processed, message |-> message, actions |-> actions]

(* JavaScript truthiness of a nullable number / nullable string column *)
TruthyNumber(x) == x # None /\ x[1] # 0
TruthyString(x) == x # None /\ x[1] # <<>>

(* Date.setHours(0, 0, 0, 0) and Date.setMinutes(0, 0, 0) on a clock that   *)
(* counts whole hours: both change the Date they are called on.           *)
setHours0(t) == t - (t % HoursPerDay)
setMinutes0(t) == t

(* checkLimits, lines 348-350: `now` is already at midnight when           *)
(* setMinutes is applied to it.                                            *)
startOfDay == setHours0(now)
startOfHour == setMinutes0(setHours0(now))

toLocaleTimeString == <<"t", Digit(now)>>

----------------------------------------------------------------------------
(* AutomationEngine helpers *)

activeTriggers(a) == SelectSeq(triggers[a], LAMBDA t : t.isActive)

(* variant: the first trigger that has a keyword is taken, matching or not *)
findMatchingTrigger_anyKeyword(commentText, trigs) ==
    IF \E i \in DOMAIN trigs : trigs[i].keyword # None
    THEN Some(trigs[CHOOSE i \in DOMAIN trigs :
                      /\ trigs[i].keyword # None
                      /\ \A j \in 1..(i - 1) : trigs[j].keyword = None])
    ELSE None

(* variant: when no keyword matches, the first configured trigger is taken *)
findMatchingTrigger_firstConfigured(commentText, trigs) ==
    LET hits == {i \in DOMAIN trigs :
                    /\ trigs[i].keyword # None
                    /\ matchKeyword(commentText, trigs[i].keyword[1].keyword,
                                    trigs[i].keyword[1].matchType,
                                    trigs[i].keyword[1].caseSensitive)}
    IN  IF hits # {} THEN Some(trigs[CHOOSE i \in hits : \A j \in hits : i <= j])
        ELSE IF trigs # <<>> THEN Some(trigs[1])
        ELSE None

RECURSIVE findMatchingTrigger(_, _)
findMatchingTrigger(commentText, trigs) ==
    IF trigs = <<>> THEN None
    ELSE IF /\ Head(trigs).keyword # None
            /\ matchKeyword(commentText, Head(trigs).keyword[1].keyword,
                            Head(trigs).keyword[1].matchType,
                            Head(trigs).keyword[1].caseSensitive)
         THEN Some(Head(trigs))
         ELSE findMatchingTrigger(commentText, Tail(trigs))

(* String.prototype.replace(regex, string): in the replacement string "$$" *)
(* stands for "$" and "$&" for the matched substring; the patterns of the  *)
(* code have no groups, so every other "$" is kept as it is.               *)
RECURSIVE replacement(_, _)
replacement(rep, matched) ==
    IF rep = <<>> THEN <<>>
    ELSE IF Len(rep) >= 2 /\ rep[1] = "$" /\ rep[2] = "$"
    THEN <<"$">> \o replacement(SubSeq(rep, 3, Len(rep)), matched)
    ELSE IF Len(rep) >= 2 /\ rep[1] = "$" /\ rep[2] = "&"
    THEN matched \o replacement(SubSeq(rep, 3, Len(rep)), matched)
    ELSE <<rep[1]>> \o replacement(Tail(rep), matched)

(* template.replace(/{username}/g, ..).replace(/{comment}/g, ..).replace(/{time}/g, ..) *)
personalize(template, username, text, time) ==
    replaceAll(replaceAll(replaceAll(template, PH_USERNAME, replacement(username, PH_USERNAME)),
                          PH_COMMENT, replacement(text, PH_COMMENT)),
               PH_TIME, replacement(time, PH_TIME))

personalizeMessage(template, c) ==
    personalize(template, CommentUsername(c), CommentText(c), toLocaleTimeString)

(* variant: every plan may use generated responses *)
isAIEnabled_anyPlan(userPlan) == TRUE

isAIEnabled(userPlan) == userPlan \in {"PRO", "ENTERPRISE"}

AI_TEXT == <<"A", "I">>

(* generateResponse: the text, or the Error it throws; genRes is what the   *)
(* external generator answers if it is called.                             *)
generateResponse(trigger, c, userPlan, genRes) ==
    LET response == trigger.response
        fail(msg) == [ok |-> FALSE, text |-> <<>>, error |-> msg, calledAI |-> FALSE]
    IN  IF response = None THEN fail("No response configured for trigger")
        ELSE IF response[1].responseType = "CUSTOM" /\ TruthyString(response[1].customMessage)
        THEN [ok |-> TRUE, text |-> personalizeMessage(response[1].customMessage[1], c),
              error |-> "", calledAI |-> FALSE]
        ELSE IF response[1].responseType = "AI_GENERATED"
        THEN IF ~isAIEnabled(userPlan) THEN fail("AI responses require PRO plan")
             ELSE IF genRes = "ok"
                  THEN [ok |-> TRUE, text |-> AI_TEXT, error |-> "", calledAI |-> TRUE]
                  ELSE [ok |-> FALSE, text |-> <<>>, error |-> genRes, calledAI |-> TRUE]
        ELSE fail("Invalid response type")

(* prisma.automationLog.count({automationId, status: 'SUCCESS', executedAt >= since}) *)
countSuccessSince(L, a, since) ==
    Cardinality({ck \in UNION {{<<c, i>> : i \in DOMAIN L[a][c]} : c \in Comments} :
                    /\ L[a][ck[1]][ck[2]].status = "SUCCESS"
                    /\ L[a][ck[1]][ck[2]].executedAt >= since})

checkLimits(L, A, a) ==
    IF /\ TruthyNumber(A[a].dailyLimit)
       /\ countSuccessSince(L, a, startOfDay) >= A[a].dailyLimit[1]
    THEN FALSE
    ELSE IF /\ TruthyNumber(A[a].hourlyLimit)
            /\ countSuccessSince(L, a, startOfHour) >= A[a].hourlyLimit[1]
    THEN FALSE
    ELSE TRUE

logAction(status, responseText) ==
    IF status = "SUCCESS"
    THEN (IF responseText # None /\ includes(responseText[1], STR_DM)
          THEN "sent_dm" ELSE "replied_comment")
    ELSE "skipped_comment"

(* variant: only a successful outcome is recorded *)
createLog_successOnly(L, a, c, status, responseText, message) ==
    IF status # "SUCCESS" THEN L
    ELSE [L EXCEPT ![a][c] = Append(@, [action |-> logAction(status, responseText),
                                        targetUsername |-> CommentUsername(c),
                                        status |-> status,
                                        message |-> message,
                                        responseText |-> responseText,
                                        executedAt |-> now])]

createLog(L, a, c, status, responseText, message) ==
    [L EXCEPT ![a][c] = Append(@, [action |-> logAction(status, responseText),
                                   targetUsername |-> CommentUsername(c),
                                   status |-> status,
                                   message |-> message,
                                   responseText |-> responseText,
                                   executedAt |-> now])]

(* variant: the failure counter is never incremented *)
updateAutomationStats_noFailed(A, a, success) ==
    [A EXCEPT ![a].totalExecutions = @ + 1,
              ![a].successfulExecutions = IF success THEN @ + 1 ELSE @,
              ![a].lastExecutedAt = Some(now)]

(* variant: a failed execution also pauses the automation *)
updateAutomationStats_pausesOnFailure(A, a, success) ==
    [A EXCEPT ![a].totalExecutions = @ + 1,
              ![a].successfulExecutions = IF success THEN @ + 1 ELSE @,
              ![a].failedExecutions = IF ~success THEN @ + 1 ELSE @,
              ![a].status = IF ~success THEN "PAUSED" ELSE @,
              ![a].lastExecutedAt = Some(now)]

(* variant: only a success is counted *)
updateAutomationStats_successOnly(A, a, success) ==
    IF ~success THEN A
    ELSE [A EXCEPT ![a].totalExecutions = @ + 1,
                   ![a].successfulExecutions = @ + 1,
                   ![a].lastExecutedAt = Some(now)]

updateAutomationStats(A, a, success) ==
    [A EXCEPT ![a].totalExecutions = @ + 1,
              ![a].successfulExecutions = IF success THEN @ + 1 ELSE @,
              ![a].failedExecutions = IF ~success THEN @ + 1 ELSE @,
              ![a].lastExecutedAt = Some(now)]

(* variant: the idempotency lookup never finds a log *)
existingLog_never(L, a, c) == FALSE

(* variant: the lookup also sees an invocation that is past its own lookup *)
(* and has not written its log yet                                         *)
existingLog_orInFlight(L, a, c) ==
    \/ L[a][c] # <<>>
    \/ \E s \in DOMAIN inflight :
          /\ inflight[s].pc = "act"
          /\ inflight[s].aid = a
          /\ Head(inflight[s].queue) = c

(* variant: the lookup passes over the rows of comments that were skipped *)
existingLog_exceptSkipped(L, a, c) ==
    \E i \in DOMAIN L[a][c] : L[a][c][i].status # "SKIPPED"

(* findFirst({automationId, targetId}): is there a log for the pair *)
existingLog(L, a, c) == L[a][c] # <<>>

addCall(K, a, c, call) == [K EXCEPT ![a][c] = Append(@, call)]

Outcome(L, A, K, result) == [logs |-> L, automation |-> A, calls |-> K, result |-> result]

----------------------------------------------------------------------------
(* AutomationEngine.processSingleComment *)

(* line 714: commentReplyText && commentReplyText.trim() *)
(* variant: the template is not trimmed before it is tested *)
replyConfigured_untrimmed(trigger) == TruthyString(trigger.commentReply)

replyConfigured(trigger) ==
    TruthyString(trigger.commentReply) /\ trim(trigger.commentReply[1]) # <<>>

(* variant: a failed reply is always logged as FAILED *)
replyFailureStatus_failed(actions) == "FAILED"

(* line 744: the status of the log written when the reply call fails *)
replyFailureStatus(actions) == IF Len(actions) > 0 THEN "SUCCESS" ELSE "FAILED"

(* variant: the message of that log does not say what the platform answered *)
replyFailureMessage_generic(replyErrorMsg, actions) ==
    <<"Comment reply failed">>
        \o (IF Len(actions) > 0 THEN <<" (DM sent successfully)">> ELSE <<>>)

(* line 746: the message of that log *)
replyFailureMessage(replyErrorMsg, actions) ==
    <<"Comment reply failed: ", replyErrorMsg>>
        \o (IF Len(actions) > 0 THEN <<" (DM sent successfully)">> ELSE <<>>)

(* variant: any error makes the final result a failure *)
overallFailed_anyError(actions, hasError) == hasError \/ Len(actions) = 0

(* line 757: the final result is a failure when no action was pushed *)
overallFailed(actions, hasError) == Len(actions) = 0

(* variant: a denial is recorded as a SKIPPED log *)
onRateLimit_logsSkipped(L, A, K, a, c) ==
    Outcome([L EXCEPT ![a][c] = Append(@, [action |-> "skipped",
                                           targetUsername |-> CommentUsername(c),
                                           status |-> "SKIPPED",
                                           message |-> <<"Rate limit reached">>,
                                           responseText |-> None,
                                           executedAt |-> now])],
            A, K, Result(FALSE, <<"Rate limit reached">>, <<>>))

(* lines 657-659: what a denial by the limiter does *)
onRateLimit(L, A, K, a, c) ==
    Outcome(L, A, K, Result(FALSE, <<"Rate limit reached">>, <<>>))

(* lines 661-783: the DM action, the optional reply action, the final result *)
dualAction(L, A, K, a, c, trigger, dmRes, replyRes, genRes) ==
    LET \* ACTION 1: Send DM (lines 670-708)
        gen == generateResponse(trigger, c, A[a].plan, genRes)
        K1 == IF gen.calledAI THEN addCall(K, a, c, Call("generate", gen.ok, <<>>)) ELSE K
        dmSent == gen.ok /\ dmRes = "ok"
        K2 == IF gen.ok THEN addCall(K1, a, c, Call("dm", dmSent, gen.text)) ELSE K1
        hasError == ~dmSent
        errorMessage == IF ~gen.ok THEN gen.error ELSE IF dmRes # "ok" THEN dmRes ELSE ""
        actions1 == IF dmSent THEN <<"sent_dm">> ELSE <<>>
        responses1 == IF dmSent THEN <<PREFIX_DM \o gen.text>> ELSE <<>>
        L1 == IF dmSent THEN L
              ELSE createLog(L, a, c, "FAILED", None, <<"DM failed: ", errorMessage>>)
        \* ACTION 2: Reply to Comment (lines 710-751)
        doReply == replyConfigured(trigger)
        personalizedReply == IF doReply THEN personalizeMessage(trigger.commentReply[1], c)
                             ELSE <<>>
        replySent == doReply /\ replyRes = "ok"
        K3 == IF doReply THEN addCall(K2, a, c, Call("reply", replySent, personalizedReply))
              ELSE K2
        actions2 == IF replySent THEN Append(actions1, "replied_comment") ELSE actions1
        responses2 == IF replySent THEN Append(responses1, PREFIX_COMMENT \o personalizedReply)
                      ELSE responses1
        L2 == IF doReply /\ ~replySent
              THEN createLog(L1, a, c, replyFailureStatus(actions1),
                             Some(join(responses1, SEP_BAR)),
                             replyFailureMessage(replyRes, actions1))
              ELSE L1
        actionPieces == [i \in DOMAIN actions2 |-> <<actions2[i]>>]
    IN  \* FINAL RESULT (lines 757-783)
        IF overallFailed(actions2, hasError)
        THEN Outcome(L2, updateAutomationStats(A, a, FALSE), K3,
                     Result(FALSE, <<"Failed: ", errorMessage>>, <<>>))
        ELSE Outcome(createLog(L2, a, c, "SUCCESS", Some(join(responses2, SEP_BAR)),
                               <<"Actions completed: ">> \o join(actionPieces, <<", ">>)),
                     updateAutomationStats(A, a, TRUE), K3,
                     Result(TRUE, <<"Success: ">> \o join(actionPieces, <<" + ">>), actions2))

(* The body of processSingleComment when no store operation fails: the     *)
(* outer catch (lines 785-799) is entered only by a failing store call.    *)
processSingleComment(L, A, K, a, c, dmRes, replyRes, genRes) ==
    IF A[a].status # "ACTIVE"
    THEN Outcome(L, A, K, Result(FALSE, <<"Automation not active">>, <<>>))
    ELSE IF existingLog(L, a, c)
    THEN Outcome(L, A, K, Result(FALSE, <<"Already processed">>, <<>>))
    ELSE LET matchedTrigger == findMatchingTrigger(CommentText(c), activeTriggers(a))
         IN  IF matchedTrigger = None
             THEN Outcome(createLog(L, a, c, "SKIPPED", None, <<"No keyword match">>), A, K,
                          Result(FALSE, <<"No keyword match">>, <<>>))
             ELSE IF ~checkLimits(L, A, a)
             THEN onRateLimit(L, A, K, a, c)
             ELSE dualAction(L, A, K, a, c, matchedTrigger[1], dmRes, replyRes, genRes)

----------------------------------------------------------------------------
(* Outcomes of the external collaborators *)

DMResults == {"ok", "Failed to send DM: error"}
ReplyResults == {"ok", "Failed to reply to comment: error"}
GenResults == {"ok", "Failed to generate AI response"}
LikeResults == {"ok", "Request failed"}

Idle == [kind |-> "idle", aid |-> 0, cid |-> 0, queue |-> <<>>]

NoResult == [op |-> "none", aid |-> 0, cid |-> 0, processed |-> FALSE,
             message |-> <<>>, actions |-> <<>>]

(* The slots of the concurrent invocations; a free slot *)
Slots == 1..MaxInflight

Free == [op |-> "free", pc |-> "free", aid |-> 0, queue |-> <<>>]

NoInvocations == [s \in Slots |-> Free]

(* No pure helper has been called *)
NoProbe == [fn |-> "none"]

Last(op, a, c, result) ==
    [op |-> op, aid |-> a, cid |-> c, processed |-> result.processed,
     message |-> result.message, actions |-> result.actions]

(* A direct invocation of processSingleComment(automationId, commentData) *)
ProcessSingleComment(a, c) ==
    /\ run = Idle
    /\ \E dmRes \in DMResults, replyRes \in ReplyResults, genRes \in GenResults :
          LET out == processSingleComment(logs, automation, calls, a, c, dmRes, replyRes, genRes)
          IN  /\ logs' = out.logs
              /\ automation' = out.automation
              /\ calls' = out.calls
              /\ last' = Last("single", a, c, out.result)
    /\ UNCHANGED <<triggers, now, run, res, faults, inflight, probe>>

(* The clock advances by one hour *)
Tick ==
    /\ now < MaxNow
    /\ now' = now + 1
    /\ UNCHANGED <<automation, triggers, logs, calls, run, last, res, faults, inflight, probe>>

----------------------------------------------------------------------------
(* Webhook controller: handleCommentEvent *)

SupportedTypes == {"COMMENT_TO_DM", "COMMENT_REPLY", "AUTO_LIKE"}

(* lines 224-228: the triggers the resolver loads with an automation *)
triggersForPost(a, p) ==
    SelectSeq(triggers[a], LAMBDA t : t.isActive /\ t.postId = Some(p))

(* variant: the resolver does not filter on the status *)
resolves_anyStatus(a, p) ==
    /\ automation[a].type \in SupportedTypes
    /\ triggersForPost(a, p) # <<>>

(* lines 208-236: prisma.automation.findMany for the event's post *)
resolves(a, p) ==
    /\ automation[a].status = "ACTIVE"
    /\ automation[a].type \in SupportedTypes
    /\ triggersForPost(a, p) # <<>>

RECURSIVE resolveFrom(_, _)
resolveFrom(p, a) ==
    IF a \notin Automations THEN <<>>
    ELSE (IF resolves(a, p) THEN <<a>> ELSE <<>>) \o resolveFrom(p, a + 1)

resolveAutomations(p) == resolveFrom(p, 1)

(* variant: a like is counted as an execution and not as a success *)
likeStats_totalOnly(A, a) ==
    [A EXCEPT ![a].totalExecutions = @ + 1,
              ![a].lastExecutedAt = Some(now)]

(* lines 340-347: prisma.automation.update after a like that succeeded *)
likeStats(A, a) ==
    [A EXCEPT ![a].totalExecutions = @ + 1,
              ![a].successfulExecutions = @ + 1,
              ![a].lastExecutedAt = Some(now)]

(* lines 277-367: the AUTO_LIKE branch of one automation *)
autoLike(L, A, K, a, c, likeRes) ==
    LET trigs == triggersForPost(a, CommentPost(c))
        \* lines 280-296: the loop over automation.triggers
        matchedKeyword ==
            \E i \in DOMAIN trigs :
                /\ trigs[i].keyword # None
                /\ matchKeywordController(CommentText(c), trigs[i].keyword[1].keyword,
                                          trigs[i].keyword[1].matchType,
                                          trigs[i].keyword[1].caseSensitive)
        row(action, status, message) ==
            [action |-> action, targetUsername |-> CommentUsername(c), status |-> status,
             message |-> message, responseText |-> None, executedAt |-> now]
    IN  IF ~matchedKeyword
        THEN Outcome([L EXCEPT ![a][c] = Append(@, row("skipped", "SKIPPED", <<"No keyword match">>))],
                     A, K, Result(FALSE, <<"No keyword match">>, <<>>))
        ELSE IF likeRes = "ok"
        THEN Outcome([L EXCEPT ![a][c] = Append(@, row("liked_comment", "SUCCESS", <<"Comment liked">>))],
                     likeStats(A, a),
                     addCall(K, a, c, Call("like", TRUE, <<>>)),
                     Result(TRUE, <<"Comment liked">>, <<"liked_comment">>))
        ELSE Outcome([L EXCEPT ![a][c] = Append(@, row("like_failed", "FAILED", <<likeRes>>))],
                     A, addCall(K, a, c, Call("like", FALSE, <<>>)),
                     Result(FALSE, <<likeRes>>, <<>>))

(* lines 249-411: the body of the loop, for one automation *)
handleAutomation(L, A, K, a, c, dmRes, replyRes, genRes, likeRes) ==
    IF existingLog(L, a, c)
    THEN Outcome(L, A, K, Result(FALSE, <<"Comment already processed">>, <<>>))
    ELSE IF A[a].type = "AUTO_LIKE"
    THEN autoLike(L, A, K, a, c, likeRes)
    ELSE processSingleComment(L, A, K, a, c, dmRes, replyRes, genRes)

(* What is left of an invocation's loop: idle again once the queue is empty *)
Continue(r) == IF Tail(r.queue) = <<>> THEN Idle ELSE [r EXCEPT !.queue = Tail(@)]

(* res.sendStatus(code) *)
sendStatus(resp, code) == Append(resp, code)

(* variant: the catch of handleWebhook answers the sender with a 500 *)
onWebhookError_sends500(resp) == Append(resp, 500)

(* handleWebhook, lines 153-156: the catch logs and sends nothing *)
onWebhookError(resp) == resp

(* The bodies a signed delivery can carry: a comment change, or a body     *)
(* whose `entry` is missing, on which `for (const item of entry)` throws.  *)
Bodies == {"comment", "malformed"}

(* handleWebhook with an invalid signature (lines 85-91): 403 and nothing else *)
WebhookRejected ==
    /\ run = Idle
    /\ res' = sendStatus(<<>>, 403)
    /\ UNCHANGED <<automation, triggers, logs, calls, now, run, last, faults, inflight, probe>>

(* handleWebhook with a valid signature, then handleCommentEvent up to the *)
(* loop: the 200 is sent, the post and its automations are loaded; with no *)
(* automation for the post the handler returns at once.                    *)
WebhookStart(c) ==
    /\ run = Idle
    /\ \E body \in Bodies :
          IF body = "malformed"
          THEN /\ res' = onWebhookError(sendStatus(<<>>, 200))
               /\ run' = Idle
               /\ last' = Last("webhook", 0, c,
                                Result(FALSE, <<"Webhook handling error">>, <<>>))
          ELSE /\ res' = sendStatus(<<>>, 200)
               /\ LET automations == resolveAutomations(CommentPost(c))
                  IN  IF automations = <<>>
                      THEN /\ run' = Idle
                           /\ last' = Last("webhook", 0, c,
                                            Result(FALSE, <<"No active automations found">>, <<>>))
                      ELSE /\ run' = [kind |-> "webhook", aid |-> 0, cid |-> c,
                                      queue |-> automations]
                           /\ last' = NoResult
    /\ UNCHANGED <<automation, triggers, logs, calls, now, faults, inflight, probe>>

(* one iteration of `for (const automation of automations)` *)
WebhookIter ==
    /\ run.kind = "webhook"
    /\ \E dmRes \in DMResults, replyRes \in ReplyResults, genRes \in GenResults,
          likeRes \in LikeResults :
          LET a == Head(run.queue)
              out == handleAutomation(logs, automation, calls, a, run.cid,
                                      dmRes, replyRes, genRes, likeRes)
          IN  /\ logs' = out.logs
              /\ automation' = out.automation
              /\ calls' = out.calls
              /\ last' = Last(IF existingLog(logs, a, run.cid) THEN "webhook"
                              ELSE IF automation[a].type = "AUTO_LIKE" THEN "like"
                              ELSE "single", a, run.cid, out.result)
    /\ run' = Continue(run)
    /\ UNCHANGED <<triggers, now, res, faults, inflight, probe>>

----------------------------------------------------------------------------
(* Batch paths: processCommentToDMAutomation / processCommentReplyAutomation *)

(* automation.controller.ts 569-579, automation-engine 490-502: which path *)
batchMode(a) == IF automation[a].type = "COMMENT_TO_DM" THEN "dm" ELSE "reply"

(* lines 17-42 / 156-180: load, status check, limiter, fetch of the comments *)
startBatch(a, p) ==
    IF automation[a].status # "ACTIVE"
    THEN /\ run' = run
         /\ last' = Last(batchMode(a), a, 0, Result(FALSE, <<"Automation not active">>, <<>>))
    ELSE IF ~checkLimits(logs, automation, a)
    THEN /\ run' = run
         /\ last' = Last(batchMode(a), a, 0, Result(FALSE, <<"Rate limit reached">>, <<>>))
    ELSE IF getMediaComments(p) = <<>>
    THEN /\ run' = run
         /\ last' = Last(batchMode(a), a, 0, Result(FALSE, <<"Processed 0 comments">>, <<>>))
    ELSE /\ run' = [kind |-> batchMode(a), aid |-> a, cid |-> 0, queue |-> getMediaComments(p)]
         /\ last' = NoResult

(* lines 82-119 / 217-247 and the catch 121-132 / 249-260: the response is *)
(* generated and sent, the outcome logged and counted                      *)
batchAction(L, A, K, a, c, trigger, mode, sendRes, genRes) ==
    LET gen == generateResponse(trigger, c, A[a].plan, genRes)
        K1 == IF gen.calledAI
              THEN addCall(K, a, c, Call("generate", gen.ok, <<>>)) ELSE K
        sent == gen.ok /\ sendRes = "ok"
        K2 == IF gen.ok THEN addCall(K1, a, c, Call(mode, sent, gen.text)) ELSE K1
        error == IF ~gen.ok THEN gen.error ELSE sendRes
    IN  IF sent
        THEN Outcome(createLog(L, a, c, "SUCCESS", Some(gen.text),
                               IF mode = "dm"
                               THEN <<"DM sent to @", CommentUsername(c)>>
                               ELSE <<"Comment replied successfully">>),
                     updateAutomationStats(A, a, TRUE), K2,
                     Result(TRUE, <<"sent">>, <<mode>>))
        ELSE Outcome(createLog(L, a, c, "FAILED", None, <<error>>),
                     updateAutomationStats(A, a, FALSE), K2,
                     Result(FALSE, <<error>>, <<>>))

(* lines 48-133 / 186-261: the body of the loop, for one comment *)
batchComment(L, A, K, a, c, mode, sendRes, genRes) ==
    IF existingLog(L, a, c)
    THEN Outcome(L, A, K, Result(FALSE, <<"already processed, skipping">>, <<>>))
    ELSE LET matchedTrigger == findMatchingTrigger(CommentText(c), activeTriggers(a))
         IN  IF matchedTrigger = None
             THEN Outcome(createLog(L, a, c, "SKIPPED", None, <<"No keyword match">>), A, K,
                          Result(FALSE, <<"No keyword match">>, <<>>))
             ELSE batchAction(L, A, K, a, c, matchedTrigger[1], mode, sendRes, genRes)

(* POST /automations/:id/trigger with a postId: the manual batch trigger *)
TriggerAutomation(a, p) ==
    /\ run = Idle
    /\ startBatch(a, p)
    /\ UNCHANGED <<automation, triggers, logs, calls, now, res, faults, inflight, probe>>

(* runActiveAutomations: the batch run of one ACTIVE automation on one of its posts *)
RunActiveAutomations(a, p) ==
    /\ run = Idle
    /\ automation[a].status = "ACTIVE"
    /\ automation[a].type \in {"COMMENT_TO_DM", "COMMENT_REPLY"}
    /\ \E i \in DOMAIN activeTriggers(a) : activeTriggers(a)[i].postId = Some(p)
    /\ startBatch(a, p)
    /\ UNCHANGED <<automation, triggers, logs, calls, now, res, faults, inflight, probe>>

(* one iteration of `for (const comment of comments)` *)
BatchIter ==
    /\ run.kind \in {"dm", "reply"}
    /\ \E sendRes \in (IF run.kind = "dm" THEN DMResults ELSE ReplyResults),
          genRes \in GenResults :
          LET c == Head(run.queue)
              out == batchComment(logs, automation, calls, run.aid, c, run.kind, sendRes, genRes)
          IN  /\ logs' = out.logs
              /\ automation' = out.automation
              /\ calls' = out.calls
              /\ last' = Last(run.kind, run.aid, c, out.result)
    /\ run' = Continue(run)
    /\ UNCHANGED <<triggers, now, res, faults, inflight, probe>>

----------------------------------------------------------------------------
(* Configurations the store can hold *)

KW_A == Keyword(<<"a">>, "CONTAINS", FALSE)
KW_B == Keyword(<<"b">>, "CONTAINS", FALSE)
RESP_CUSTOM == Response("CUSTOM", Some(<<"H", "i", " ">> \o PH_USERNAME))
RESP_AI == Response("AI_GENERATED", None)
REPLY_TEXT == <<"o", "k", " ">> \o PH_USERNAME

PlainTriggers == <<Trigger(Some(1), Some(KW_B), Some(RESP_CUSTOM), None, TRUE)>>
ReplyTriggers == <<Trigger(Some(1), Some(KW_B), Some(RESP_CUSTOM), Some(REPLY_TEXT), TRUE)>>

TriggerLists ==
    { PlainTriggers,
      ReplyTriggers,
      <<Trigger(Some(1), Some(KW_A), None, Some(REPLY_TEXT), TRUE)>>,
      <<Trigger(Some(1), None, Some(RESP_CUSTOM), None, TRUE),
        Trigger(Some(1), Some(KW_B), Some(RESP_CUSTOM), None, FALSE),
        Trigger(Some(1), Some(KW_A), Some(RESP_AI), None, TRUE)>>,
      <<Trigger(Some(1), Some(KW_A), Some(RESP_CUSTOM), Some(<<" ">>), TRUE),
        Trigger(Some(2), Some(KW_B), Some(RESP_CUSTOM), None, TRUE)>> }

SiblingTriggers == <<Trigger(Some(1), Some(KW_A), Some(RESP_CUSTOM), None, TRUE)>>

(* an automation whose only trigger is on the other post *)
OtherPostTriggers == <<Trigger(Some(2), Some(KW_B), Some(RESP_CUSTOM), None, TRUE)>>

UsesAI(trigs) ==
    \E i \in DOMAIN trigs :
        trigs[i].response # None /\ trigs[i].response[1].responseType = "AI_GENERATED"

(* The configurations of the automation the model starts from: any trigger *)
(* list without caps; daily and hourly caps, with and without a reply     *)
(* template; the reply and like types; a paused automation.               *)
Configurations ==
    { <<Automation("ACTIVE", "COMMENT_TO_DM", None, None, plan), trigs>> :
          plan \in {"FREE", "PRO"}, trigs \in TriggerLists }
    \cup { <<Automation("ACTIVE", "COMMENT_TO_DM", daily, None, "PRO"), PlainTriggers>> :
          daily \in {Some(0), Some(1)} }
    \cup { <<Automation("ACTIVE", "COMMENT_TO_DM", daily, None, "PRO"), ReplyTriggers>> :
          daily \in {Some(1), Some(2)} }
    \cup { <<Automation("ACTIVE", "COMMENT_TO_DM", None, Some(1), "PRO"), PlainTriggers>>,
           <<Automation("ACTIVE", "COMMENT_REPLY", None, None, "PRO"), SiblingTriggers>>,
           <<Automation("ACTIVE", "COMMENT_REPLY", Some(1), None, "PRO"), PlainTriggers>>,
           <<Automation("ACTIVE", "AUTO_LIKE", None, None, "PRO"), SiblingTriggers>>,
           <<Automation("PAUSED", "COMMENT_TO_DM", None, None, "PRO"), PlainTriggers>>,
           <<Automation("ACTIVE", "COMMENT_TO_DM", None, None, "PRO"), OtherPostTriggers>> }

Init ==
    /\ \E cfg \in Configurations :
          /\ cfg[1].plan = "FREE" => UsesAI(cfg[2])
          /\ automation = (1 :> cfg[1])
          /\ triggers = (1 :> cfg[2])
    /\ logs = [a \in Automations |-> [c \in Comments |-> <<>>]]
    /\ calls = [a \in Automations |-> [c \in Comments |-> <<>>]]
    /\ now = 0
    /\ run = Idle
    /\ last = NoResult
    /\ res = <<>>
    /\ faults = 0
    /\ inflight = NoInvocations
    /\ probe = NoProbe

Next ==
    \/ \E a \in Automations, c \in Comments : ProcessSingleComment(a, c)
    \/ WebhookRejected
    \/ \E c \in Comments : WebhookStart(c)
    \/ WebhookIter
    \/ \E a \in Automations, p \in Posts : TriggerAutomation(a, p)
    \/ \E a \in Automations, p \in Posts : RunActiveAutomations(a, p)
    \/ BatchIter
    \/ Tick

Spec == Init /\ [][Next]_vars

----------------------------------------------------------------------------
(* The same loops when operations of the store (prisma) can throw          *)

STORE_ERROR == "Store operation failed"

(* The store operation whose first call inside the try block throws, and   *)
(* the one whose call inside the catch block throws.                       *)
StoreFaults == {"none", "findFirst", "count", "createLog", "updateStats"}
CatchFaults == {"none", "createLog", "updateStats"}

(* what an invocation that ends by throwing hands to its caller *)
Thrown(err) == Result(FALSE, <<"throw", err>>, <<>>)

(* `catch (error) { createLog(FAILED, error.message); updateAutomationStats(false) }` *)
(* of processSingleComment (785-799) and of the batch loops (121-132,      *)
(* 249-260): the store as the handler leaves it, and whether a call inside *)
(* the handler threw.                                                      *)
catchAndLog(L, A, K, a, c, err, cf) ==
    IF cf = "createLog"
    THEN [logs |-> L, automation |-> A, calls |-> K, threw |-> TRUE]
    ELSE IF cf = "updateStats"
    THEN [logs |-> createLog(L, a, c, "FAILED", None, <<err>>), automation |-> A,
          calls |-> K, threw |-> TRUE]
    ELSE [logs |-> createLog(L, a, c, "FAILED", None, <<err>>),
          automation |-> updateAutomationStats(A, a, FALSE), calls |-> K, threw |-> FALSE]

(* lines 785-799: the outer catch of processSingleComment rethrows *)
outerCatch(L, A, K, a, c, err, cf) ==
    LET h == catchAndLog(L, A, K, a, c, err, cf)
    IN  Outcome(h.logs, h.automation, h.calls, Thrown(err))

(* lines 661-783 with a throwing store, o being what the dual action does *)
(* when nothing throws: the first createLog of the dual action is the one  *)
(* of the DM catch (701), of the reply catch (741) or the final one (765); *)
(* updateAutomationStats comes last (759, 773).                            *)
dualActionThrows(L, A, a, c, o, f, cf) ==
    LET dmSent == \E i \in DOMAIN o.calls[a][c] :
                      o.calls[a][c][i].kind = "dm" /\ o.calls[a][c][i].ok
        upToDM == [o.calls EXCEPT ![a][c] = SelectSeq(@, LAMBDA k : k.kind # "reply")]
    IN  IF f = "createLog"
        THEN outerCatch(L, A, IF dmSent THEN o.calls ELSE upToDM, a, c, STORE_ERROR, cf)
        ELSE IF f = "updateStats"
        THEN outerCatch(o.logs, A, o.calls, a, c, STORE_ERROR, cf)
        ELSE o

dualActionF(L, A, K, a, c, trigger, dmRes, replyRes, genRes, f, cf) ==
    dualActionThrows(L, A, a, c,
                     dualAction(L, A, K, a, c, trigger, dmRes, replyRes, genRes), f, cf)

(* processSingleComment (595-800) with a throwing store; the load of the   *)
(* automation (607) is taken to succeed.                                   *)
processSingleCommentF(L, A, K, a, c, dmRes, replyRes, genRes, f, cf) ==
    IF A[a].status # "ACTIVE"
    THEN Outcome(L, A, K, Result(FALSE, <<"Automation not active">>, <<>>))
    ELSE IF f = "findFirst"
    THEN outerCatch(L, A, K, a, c, STORE_ERROR, cf)
    ELSE IF existingLog(L, a, c)
    THEN Outcome(L, A, K, Result(FALSE, <<"Already processed">>, <<>>))
    ELSE LET matchedTrigger == findMatchingTrigger(CommentText(c), activeTriggers(a))
         IN  IF matchedTrigger = None
             THEN IF f = "createLog"
                  THEN outerCatch(L, A, K, a, c, STORE_ERROR, cf)
                  ELSE Outcome(createLog(L, a, c, "SKIPPED", None, <<"No keyword match">>),
                               A, K, Result(FALSE, <<"No keyword match">>, <<>>))
             ELSE IF /\ f = "count"
                     /\ TruthyNumber(A[a].dailyLimit) \/ TruthyNumber(A[a].hourlyLimit)
             THEN outerCatch(L, A, K, a, c, STORE_ERROR, cf)
             ELSE IF ~checkLimits(L, A, a)
             THEN onRateLimit(L, A, K, a, c)
             ELSE dualActionF(L, A, K, a, c, matchedTrigger[1], dmRes, replyRes, genRes, f, cf)

(* webhook controller 277-367 with a throwing store, o being what the     *)
(* branch does when nothing throws: a throw of the SKIPPED create or of a  *)
(* create inside the like catch leaves the branch; a throw after the like  *)
(* went out is caught by the like catch.                                   *)
autoLikeThrows(L, A, K, a, c, o, f, cf) ==
    LET liked == \E i \in DOMAIN o.calls[a][c] : o.calls[a][c][i].ok
        failedRow == [action |-> "like_failed", targetUsername |-> CommentUsername(c),
                      status |-> "FAILED", message |-> <<STORE_ERROR>>,
                      responseText |-> None, executedAt |-> now]
        before == IF f = "createLog" THEN L ELSE o.logs
    IN  IF o.calls = K
        THEN IF f = "createLog" THEN Outcome(L, A, K, Thrown(STORE_ERROR)) ELSE o
        ELSE IF liked /\ f \in {"createLog", "updateStats"}
        THEN IF cf = "createLog"
             THEN Outcome(before, A, o.calls, Thrown(STORE_ERROR))
             ELSE Outcome([before EXCEPT ![a][c] = Append(@, failedRow)],
                          A, o.calls, Result(FALSE, <<STORE_ERROR>>, <<>>))
        ELSE IF ~liked /\ cf = "createLog"
        THEN Outcome(L, A, o.calls, Thrown(STORE_ERROR))
        ELSE o

autoLikeF(L, A, K, a, c, likeRes, f, cf) ==
    autoLikeThrows(L, A, K, a, c, autoLike(L, A, K, a, c, likeRes), f, cf)

(* webhook controller 249-411 with a throwing store: whatever is thrown is *)
(* caught and logged by the catch of the loop body (396-410).              *)
handleAutomationF(L, A, K, a, c, dmRes, replyRes, genRes, likeRes, f, cf) ==
    IF f = "findFirst"
    THEN Outcome(L, A, K, Thrown(STORE_ERROR))
    ELSE IF existingLog(L, a, c)
    THEN Outcome(L, A, K, Result(FALSE, <<"Comment already processed">>, <<>>))
    ELSE IF A[a].type = "AUTO_LIKE"
    THEN autoLikeF(L, A, K, a, c, likeRes, f, cf)
    ELSE processSingleCommentF(L, A, K, a, c, dmRes, replyRes, genRes, f, cf)

(* one iteration of `for (const automation of automations)`, store throwing *)
WebhookIterF ==
    /\ run.kind = "webhook"
    /\ \E dmRes \in DMResults, replyRes \in ReplyResults, genRes \in GenResults,
          likeRes \in LikeResults,
          f \in (IF faults < MaxFaults THEN StoreFaults ELSE {"none"}),
          cf \in (IF faults < MaxFaults THEN CatchFaults ELSE {"none"}) :
          LET a == Head(run.queue)
              out == handleAutomationF(logs, automation, calls, a, run.cid,
                                       dmRes, replyRes, genRes, likeRes, f, cf)
          IN  /\ logs' = out.logs
              /\ automation' = out.automation
              /\ calls' = out.calls
              /\ last' = Last(IF automation[a].type = "AUTO_LIKE" THEN "like" ELSE "single",
                              a, run.cid, out.result)
              /\ faults' = IF f = "none" /\ cf = "none" THEN faults ELSE faults + 1
    /\ run' = Continue(run)
    /\ UNCHANGED <<triggers, now, res, inflight, probe>>

(* the loop body's catch (121-132, 249-260) as the end of an iteration: the *)
(* store it leaves, and whether it threw itself.                           *)
caught(L, A, K, a, c, err, cf, result) ==
    LET h == catchAndLog(L, A, K, a, c, err, cf)
    IN  [out |-> Outcome(h.logs, h.automation, h.calls,
                         IF h.threw THEN Thrown(STORE_ERROR) ELSE result),
         threw |-> h.threw]

(* lines 48-133 / 186-261 with a throwing store, o being what the loop     *)
(* body does when nothing throws.                                          *)
batchCommentThrows(L, A, K, a, c, o, f, cf) ==
    LET failed == Result(FALSE, <<STORE_ERROR>>, <<>>)
        went == [out |-> o, threw |-> FALSE]
    IN  IF f = "findFirst"
        THEN caught(L, A, K, a, c, STORE_ERROR, cf, failed)
        ELSE IF existingLog(L, a, c)
        THEN went
        ELSE IF o.calls = K /\ o.result.message = <<"No keyword match">>
        THEN IF f = "createLog"
             THEN caught(L, A, K, a, c, STORE_ERROR, cf, failed)
             ELSE went
        ELSE IF o.result.processed
        THEN IF f = "createLog"
             THEN caught(L, A, o.calls, a, c, STORE_ERROR, cf, failed)
             ELSE IF f = "updateStats"
             THEN caught(o.logs, A, o.calls, a, c, STORE_ERROR, cf, failed)
             ELSE went
        ELSE caught(L, A, o.calls, a, c, o.result.message[1], cf, o.result)

batchCommentF(L, A, K, a, c, mode, sendRes, genRes, f, cf) ==
    batchCommentThrows(L, A, K, a, c,
                       batchComment(L, A, K, a, c, mode, sendRes, genRes), f, cf)

(* one iteration of `for (const comment of comments)`, store throwing: a   *)
(* throw inside the catch leaves the loop and the invocation (141-144).    *)
BatchIterF ==
    /\ run.kind \in {"dm", "reply"}
    /\ \E sendRes \in (IF run.kind = "dm" THEN DMResults ELSE ReplyResults),
          genRes \in GenResults,
          f \in (IF faults < MaxFaults THEN StoreFaults ELSE {"none"}),
          cf \in (IF faults < MaxFaults THEN CatchFaults ELSE {"none"}) :
          LET c == Head(run.queue)
              r == batchCommentF(logs, automation, calls, run.aid, c, run.kind,
                                 sendRes, genRes, f, cf)
          IN  /\ logs' = r.out.logs
              /\ automation' = r.out.automation
              /\ calls' = r.out.calls
              /\ last' = Last(run.kind, run.aid, c, r.out.result)
              /\ run' = IF r.threw THEN Idle ELSE Continue(run)
              /\ faults' = IF f = "none" /\ cf = "none" THEN faults ELSE faults + 1
    /\ UNCHANGED <<triggers, now, res, inflight, probe>>

(* Two automations on post 1: a DM automation and a sibling *)
FaultConfiguration(daily, trigs, ty) ==
    <<(1 :> Automation("ACTIVE", "COMMENT_TO_DM", daily, None, "PRO"))
          @@ (2 :> Automation("ACTIVE", ty, None, None, "PRO")),
      (1 :> trigs) @@ (2 :> SiblingTriggers)>>

FaultConfigurations ==
    { FaultConfiguration(None, ReplyTriggers, "COMMENT_REPLY"),
      FaultConfiguration(None, PlainTriggers, "AUTO_LIKE"),
      FaultConfiguration(Some(1), PlainTriggers, "COMMENT_REPLY") }

FaultInit ==
    /\ \E cfg \in FaultConfigurations :
          /\ automation = cfg[1]
          /\ triggers = cfg[2]
    /\ logs = [a \in Automations |-> [c \in Comments |-> <<>>]]
    /\ calls = [a \in Automations |-> [c \in Comments |-> <<>>]]
    /\ now = 0
    /\ run = Idle
    /\ last = NoResult
    /\ res = <<>>
    /\ faults = 0
    /\ inflight = NoInvocations
    /\ probe = NoProbe

(* Deliveries and batch runs follow one another until one of them has met *)
(* the throwing store MaxFaults times; that one runs to its end.          *)
FaultNext ==
    \/ \E c \in Comments : faults < MaxFaults /\ WebhookStart(c)
    \/ WebhookIterF
    \/ \E a \in Automations, p \in Posts : faults < MaxFaults /\ TriggerAutomation(a, p)
    \/ BatchIterF

FaultSpec == FaultInit /\ [][FaultNext]_vars

----------------------------------------------------------------------------
(* Concurrent invocations.  Every `await` of a handler is a point where    *)
(* another invocation may run; the model lets them interleave at one point *)
(* per comment, between the reads of an invocation (automation, existing   *)
(* log, limiter counts) and its external calls and writes, which is a      *)
(* subset of the interleavings the server has.                             *)

Invocation(op, a, queue) == [op |-> op, pc |-> "check", aid |-> a, queue |-> queue]

(* the invocation goes on to its next comment, or returns *)
NextComment(e) == IF Tail(e.queue) = <<>> THEN Free
                  ELSE [e EXCEPT !.queue = Tail(@), !.pc = "check"]

(* a webhook delivery for comment c reaches processSingleComment(a, c) *)
Deliver(s, a, c) ==
    /\ inflight[s] = Free
    /\ resolves(a, CommentPost(c))
    /\ automation[a].type # "AUTO_LIKE"
    /\ inflight' = [inflight EXCEPT ![s] = Invocation("single", a, <<c>>)]
    /\ UNCHANGED <<automation, triggers, logs, calls, now, run, last, res, faults, probe>>

(* a manual or scheduled batch run of automation a on post p gets as far   *)
(* as its loop: lines 17-46                                                *)
InvokeBatch(s, a, p) ==
    /\ inflight[s] = Free
    /\ automation[a].status = "ACTIVE"
    /\ checkLimits(logs, automation, a)
    /\ getMediaComments(p) # <<>>
    /\ inflight' = [inflight EXCEPT ![s] = Invocation(batchMode(a), a, getMediaComments(p))]
    /\ UNCHANGED <<automation, triggers, logs, calls, now, run, last, res, faults, probe>>

(* the reads of an invocation for its current comment, up to the point     *)
(* where it would call the platform: processSingleComment 607-659, batch   *)
(* loop 50-80                                                              *)
passesChecks(op, L, A, a, c) ==
    /\ A[a].status = "ACTIVE"
    /\ ~existingLog(L, a, c)
    /\ findMatchingTrigger(CommentText(c), activeTriggers(a)) # None
    /\ op = "single" => checkLimits(L, A, a)

(* what the invocation does when its reads end it for this comment *)
earlyReturn(op, L, A, K, a, c) ==
    IF op = "single"
    THEN processSingleComment(L, A, K, a, c, "ok", "ok", "ok")
    ELSE batchComment(L, A, K, a, c, op, "ok", "ok")

Check(s) ==
    /\ inflight[s].pc = "check"
    /\ LET e == inflight[s]
           c == Head(e.queue)
       IN  IF passesChecks(e.op, logs, automation, e.aid, c)
           THEN /\ inflight' = [inflight EXCEPT ![s].pc = "act"]
                /\ UNCHANGED <<automation, logs, calls, last>>
           ELSE LET out == earlyReturn(e.op, logs, automation, calls, e.aid, c)
                IN  /\ logs' = out.logs
                    /\ automation' = out.automation
                    /\ calls' = out.calls
                    /\ last' = Last(e.op, e.aid, c, out.result)
                    /\ inflight' = [inflight EXCEPT ![s] = NextComment(e)]
    /\ UNCHANGED <<triggers, now, run, res, faults, probe>>

(* the external calls and the writes of an invocation that passed its      *)
(* reads: processSingleComment 661-783, batch loop 82-132                  *)
afterChecks(op, L, A, K, a, c, trigger, dmRes, replyRes, genRes) ==
    IF op = "single"
    THEN dualAction(L, A, K, a, c, trigger, dmRes, replyRes, genRes)
    ELSE batchAction(L, A, K, a, c, trigger, op,
                     IF op = "dm" THEN dmRes ELSE replyRes, genRes)

Act(s) ==
    /\ inflight[s].pc = "act"
    /\ \E dmRes \in DMResults, replyRes \in ReplyResults, genRes \in GenResults :
          LET e == inflight[s]
              c == Head(e.queue)
              trigger == findMatchingTrigger(CommentText(c), activeTriggers(e.aid))[1]
              out == afterChecks(e.op, logs, automation, calls, e.aid, c, trigger,
                                 dmRes, replyRes, genRes)
          IN  /\ logs' = out.logs
              /\ automation' = out.automation
              /\ calls' = out.calls
              /\ last' = Last(e.op, e.aid, c, out.result)
              /\ inflight' = [inflight EXCEPT ![s] = NextComment(e)]
    /\ UNCHANGED <<triggers, now, run, res, faults, probe>>

RaceConfigurations ==
    { <<Automation("ACTIVE", "COMMENT_TO_DM", None, None, "PRO"), PlainTriggers>>,
      <<Automation("ACTIVE", "COMMENT_TO_DM", Some(1), None, "PRO"), PlainTriggers>> }

RaceInit ==
    /\ \E cfg \in RaceConfigurations :
          /\ automation = (1 :> cfg[1])
          /\ triggers = (1 :> cfg[2])
    /\ logs = [a \in Automations |-> [c \in Comments |-> <<>>]]
    /\ calls = [a \in Automations |-> [c \in Comments |-> <<>>]]
    /\ now = 0
    /\ run = Idle
    /\ last = NoResult
    /\ res = <<>>
    /\ faults = 0
    /\ inflight = NoInvocations
    /\ probe = NoProbe

RaceNext ==
    \/ \E s \in Slots, a \in Automations, c \in Comments : Deliver(s, a, c)
    \/ \E s \in Slots, a \in Automations, p \in Posts : InvokeBatch(s, a, p)
    \/ \E s \in Slots : Check(s)
    \/ \E s \in Slots : Act(s)

RaceSpec == RaceInit /\ [][RaceNext]_vars

----------------------------------------------------------------------------
(* The pure helpers called on their own: matchKeyword, findMatchingTrigger *)
(* and personalizeMessage, on arguments drawn from bounded sets            *)

(* How many times a helper is called on the same arguments. *)
MaxProbeCalls == 2

RECURSIVE StringsOver(_, _)
StringsOver(alphabet, n) ==
    IF n = 0 THEN {<<>>}
    ELSE LET shorter == StringsOver(alphabet, n - 1)
         IN  shorter \cup {Append(str, ch) : str \in shorter, ch \in alphabet}

TextAlphabet == {"a", "A", "b", "("}
KeywordAlphabet == {"a", "A", "b", ".", "("}
MatchTypes == {"EXACT", "CONTAINS", "STARTS_WITH", "ENDS_WITH", "REGEX", "FUZZY"}

Texts == StringsOver(TextAlphabet, MaxTextLen)
Keywords == StringsOver(KeywordAlphabet, MaxKeywordLen)

(* the keyword of a trigger in the lists findMatchingTrigger is called on *)
ProbeKeywords ==
    { None,
      Some(KW_A),
      Some(KW_B),
      Some(Keyword(<<"A">>, "EXACT", TRUE)),
      Some(Keyword(<<"(">>, "REGEX", FALSE)) }

(* the i-th trigger of such a list carries i in its reply template *)
ProbeTrigger(kw, i) == Trigger(Some(1), kw, Some(RESP_CUSTOM), Some(<<Digit(i)>>), TRUE)

RECURSIVE ProbeTriggerLists(_)
ProbeTriggerLists(n) ==
    IF n = 0 THEN {<<>>}
    ELSE LET shorter == ProbeTriggerLists(n - 1)
         IN  shorter \cup {Append(l, ProbeTrigger(kw, n)) :
                              l \in {k \in shorter : Len(k) = n - 1}, kw \in ProbeKeywords}

(* the pieces templates are made of, the handles and the comment texts *)
TemplatePieces == {PH_USERNAME, PH_COMMENT, PH_TIME, <<"x">>}

RECURSIVE Templates(_)
Templates(n) ==
    IF n = 0 THEN {<<>>}
    ELSE LET shorter == Templates(n - 1)
         IN  shorter \cup {t \o piece : t \in shorter, piece \in TemplatePieces}

ProbeUsernames == {<<"u", "1">>, PH_COMMENT}
ProbeTexts == {<<"h", "i">>, PH_TIME, PH_USERNAME, <<"$", "&">>, <<"$", "$">>}

ProbeInputs ==
    {[fn |-> "matchKeyword", text |-> t, keyword |-> k, matchType |-> m,
      caseSensitive |-> cs, results |-> <<>>] :
         t \in Texts, k \in Keywords, m \in MatchTypes, cs \in BOOLEAN}
    \cup {[fn |-> "bothMatchers", text |-> t, keyword |-> k, matchType |-> m,
           caseSensitive |-> cs, results |-> <<>>] :
             t \in Texts, k \in Keywords, m \in MatchTypes, cs \in BOOLEAN}
    \cup {[fn |-> "findMatchingTrigger", text |-> t, results |-> <<>>] : t \in Texts}
    \cup {[fn |-> "personalizeMessage", template |-> tpl, username |-> u, text |-> t,
           results |-> <<>>] :
             tpl \in Templates(MaxTemplateLen), u \in ProbeUsernames, t \in ProbeTexts}

MatcherInit ==
    /\ probe \in ProbeInputs
    /\ automation = (1 :> Automation("ACTIVE", "COMMENT_TO_DM", None, None, "PRO"))
    /\ \E trigs \in ProbeTriggerLists(MaxTriggers) :
          /\ probe.fn # "findMatchingTrigger" => trigs = <<>>
          /\ triggers = (1 :> trigs)
    /\ logs = [a \in Automations |-> [c \in Comments |-> <<>>]]
    /\ calls = [a \in Automations |-> [c \in Comments |-> <<>>]]
    /\ now = 0
    /\ run = Idle
    /\ last = NoResult
    /\ res = <<>>
    /\ faults = 0
    /\ inflight = NoInvocations

(* instagramPlatformService.matchKeyword(text, keyword, matchType, caseSensitive) *)
MatchKeyword ==
    /\ probe.fn = "matchKeyword"
    /\ Len(probe.results) < MaxProbeCalls
    /\ probe' = [probe EXCEPT !.results =
                    Append(@, matchKeyword(probe.text, probe.keyword, probe.matchType,
                                           probe.caseSensitive))]
    /\ UNCHANGED <<automation, triggers, logs, calls, now, run, last, res, faults, inflight>>

(* the controller's matchKeyword and the platform service's matchKeyword,  *)
(* called once on the same arguments                                       *)
MatchKeywordBoth ==
    /\ probe.fn = "bothMatchers"
    /\ probe.results = <<>>
    /\ probe' = [probe EXCEPT !.results =
                    <<[controller |-> matchKeywordController(probe.text, probe.keyword,
                                                             probe.matchType,
                                                             probe.caseSensitive),
                       service |-> matchKeyword(probe.text, probe.keyword, probe.matchType,
                                                probe.caseSensitive)]>>]
    /\ UNCHANGED <<automation, triggers, logs, calls, now, run, last, res, faults, inflight>>

(* this.findMatchingTrigger(commentText, automation.triggers) *)
FindMatchingTrigger ==
    /\ probe.fn = "findMatchingTrigger"
    /\ Len(probe.results) < MaxProbeCalls
    /\ probe' = [probe EXCEPT !.results =
                    Append(@, findMatchingTrigger(probe.text, triggers[1]))]
    /\ UNCHANGED <<automation, triggers, logs, calls, now, run, last, res, faults, inflight>>

(* this.personalizeMessage(template, comment) *)
PersonalizeMessage ==
    /\ probe.fn = "personalizeMessage"
    /\ Len(probe.results) < MaxProbeCalls
    /\ probe' = [probe EXCEPT !.results =
                    Append(@, [time |-> toLocaleTimeString,
                               value |-> personalize(probe.template, probe.username,
                                                     probe.text, toLocaleTimeString)])]
    /\ UNCHANGED <<automation, triggers, logs, calls, now, run, last, res, faults, inflight>>

MatcherNext ==
    \/ MatchKeyword
    \/ MatchKeywordBoth
    \/ FindMatchingTrigger
    \/ PersonalizeMessage
    \/ Tick

MatcherSpec == MatcherInit /\ [][MatcherNext]_vars

----------------------------------------------------------------------------
(* The automation and keyword editors (automation.controller.ts,           *)
(* keyword.controller.ts) next to the entry points of the engine           *)

(* updateAutomation, lines 204-228, called with `triggers` and nothing     *)
(* else in the body: the triggers of the automation are deleted and the    *)
(* given ones created, each of them active                                 *)
updateAutomation(T, a, trigs) ==
    [T EXCEPT ![a] = [i \in DOMAIN trigs |-> [trigs[i] EXCEPT !.isActive = TRUE]]]

(* updateKeyword, lines 121-129: the Keyword row the trigger refers to     *)
(* gets a new keyword text, mode and case flag                             *)
updateKeyword(T, a, i, kw) == [T EXCEPT ![a][i].keyword = Some(kw)]

(* The trigger lists and the keywords an editor submits *)
EditedTriggers == {PlainTriggers, ReplyTriggers, SiblingTriggers}
EditedKeywords == {KW_A, KW_B}

UpdateAutomation(a) ==
    /\ run = Idle
    /\ \E trigs \in EditedTriggers : triggers' = updateAutomation(triggers, a, trigs)
    /\ triggers' # triggers
    /\ UNCHANGED <<automation, logs, calls, now, run, last, res, faults, inflight, probe>>

UpdateKeyword(a) ==
    /\ run = Idle
    /\ \E i \in DOMAIN triggers[a], kw \in EditedKeywords :
          /\ triggers[a][i].keyword # None
          /\ triggers' = updateKeyword(triggers, a, i, kw)
    /\ triggers' # triggers
    /\ UNCHANGED <<automation, logs, calls, now, run, last, res, faults, inflight, probe>>

(* The store the editors start from: a DM automation, a reply automation   *)
(* and a like automation, each with one trigger on post 1                  *)
EditConfigurations ==
    { <<Automation("ACTIVE", "COMMENT_TO_DM", None, None, "PRO"), PlainTriggers>>,
      <<Automation("ACTIVE", "COMMENT_REPLY", None, None, "PRO"), SiblingTriggers>>,
      <<Automation("ACTIVE", "AUTO_LIKE", None, None, "PRO"), SiblingTriggers>> }

EditInit ==
    /\ \E cfg \in EditConfigurations :
          /\ automation = (1 :> cfg[1])
          /\ triggers = (1 :> cfg[2])
    /\ logs = [a \in Automations |-> [c \in Comments |-> <<>>]]
    /\ calls = [a \in Automations |-> [c \in Comments |-> <<>>]]
    /\ now = 0
    /\ run = Idle
    /\ last = NoResult
    /\ res = <<>>
    /\ faults = 0
    /\ inflight = NoInvocations
    /\ probe = NoProbe

EditNext ==
    \/ \E a \in Automations, c \in Comments : ProcessSingleComment(a, c)
    \/ \E c \in Comments : WebhookStart(c)
    \/ WebhookIter
    \/ \E a \in Automations, p \in Posts : TriggerAutomation(a, p)
    \/ BatchIter
    \/ \E a \in Automations : UpdateAutomation(a)
    \/ \E a \in Automations : UpdateKeyword(a)

EditSpec == EditInit /\ [][EditNext]_vars

----------------------------------------------------------------------------
(* Vocabulary of the properties *)

RATE_LIMITED == <<"Rate limit reached">>
NOT_ACTIVE == <<"Automation not active">>

HasCall(K, a, c, kind, ok) ==
    \E i \in DOMAIN K[a][c] : K[a][c][i].kind = kind /\ K[a][c][i].ok = ok

HasLogWith(L, a, c, status) ==
    \E i \in DOMAIN L[a][c] : L[a][c][i].status = status

(* the step made a DM or reply call for (a, c) *)
MadeSendCall(a, c) ==
    /\ Len(calls'[a][c]) > Len(calls[a][c])
    /\ \E i \in (Len(calls[a][c]) + 1)..Len(calls'[a][c]) :
          calls'[a][c][i].kind \in {"dm", "reply"}

(* rows of automation a with outcome SUCCESS written since hour `since` *)
SuccessRowsSince(a, since) ==
    {ci \in UNION {{<<c, i>> : i \in DOMAIN logs[a][c]} : c \in Comments} :
        /\ logs[a][ci[1]][ci[2]].status = "SUCCESS"
        /\ logs[a][ci[1]][ci[2]].executedAt >= since}

Today == now - (now % HoursPerDay)

(* comments of automation a with a SUCCESS row written today *)
DoneToday(a) ==
    {c \in Comments : \E i \in DOMAIN logs[a][c] :
        logs[a][c][i].status = "SUCCESS" /\ logs[a][c][i].executedAt >= Today}

Matches(a, c) ==
    \E i \in DOMAIN triggers[a] :
        /\ triggers[a][i].isActive
        /\ triggers[a][i].keyword # None
        /\ matchKeyword(CommentText(c), triggers[a][i].keyword[1].keyword,
                        triggers[a][i].keyword[1].matchType,
                        triggers[a][i].keyword[1].caseSensitive)

(* the step is the processing of the pair (a, c): every processing step   *)
(* records the pair in last and leaves the clock and the answer to the    *)
(* upstream sender alone; a start of a delivery or of a batch records no  *)
(* automation or no comment.                                              *)
Processed(a, c) == last'.aid = a /\ last'.cid = c /\ now' = now /\ res' = res

----------------------------------------------------------------------------
(* C1: every automation has at most one ExecutionLog row per target        *)
(* comment id, in every state reached by sequential invocations.           *)
C1_AtMostOneLogPerComment ==
    \A a \in Automations, c \in Comments : Len(logs[a][c]) <= 1

(* C2: a second processSingleComment for the same (automation, comment),   *)
(* made right after a first one that processed the comment, leaves exactly *)
(* one log for the pair and makes no external call.                        *)
C2_SecondCallIdempotent ==
    [][ \A a \in Automations, c \in Comments :
          ( /\ run = Idle /\ run' = Idle
            /\ last.op = "single" /\ last.aid = a /\ last.cid = c
            /\ last.message \notin {NOT_ACTIVE, RATE_LIMITED}
            /\ last'.op = "single" /\ Processed(a, c) )
          => (Len(logs'[a][c]) = 1 /\ calls'[a][c] = calls[a][c]) ]_vars

(* C3: on every entry point, when a log already exists for the pair at the *)
(* idempotency check, the processing of the pair writes no log, changes no *)
(* counter nor lastExecutedAt and makes no external call.                  *)
C3_ExistingLogStopsProcessing ==
    [][ \A a \in Automations, c \in Comments :
          (logs[a][c] # <<>> /\ Processed(a, c))
          => (logs' = logs /\ automation' = automation /\ calls' = calls
              /\ ~last'.processed) ]_vars

(* C3 witness: a batch iteration met a comment that a DM was already sent for *)
C3_Witness ==
    /\ last.op = "dm"
    /\ last.message = <<"already processed, skipping">>
    /\ HasCall(calls, last.aid, last.cid, "dm", TRUE)

(* C4: with dailyLimit = N >= 1, no hourly cap and every DM call           *)
(* succeeding, processSingleComment answers 'Rate limit reached' to a      *)
(* comment only once N distinct comments were processed successfully that  *)
(* day.                                                                    *)
C4_DeniedOnlyAfterNComments ==
    [][ \A a \in Automations, c \in Comments :
          ( /\ last'.op = "single" /\ Processed(a, c)
            /\ last'.message = RATE_LIMITED
            /\ automation[a].dailyLimit # None /\ automation[a].dailyLimit[1] >= 1
            /\ automation[a].hourlyLimit = None
            /\ \A d \in Comments : ~HasCall(calls, a, d, "dm", FALSE) )
          => Cardinality(DoneToday(a)) >= automation[a].dailyLimit[1] ]_vars

(* C5: with dailyLimit = 0 the processing of a matching comment by an      *)
(* ACTIVE automation answers 'Rate limit reached', makes no call, writes   *)
(* no log and changes no counter.                                          *)
C5_ZeroDailyLimitDenies ==
    \A a \in Automations, c \in Comments :
        ( /\ last.op = "single" /\ last.aid = a /\ last.cid = c
          /\ automation[a].status = "ACTIVE"
          /\ automation[a].dailyLimit = Some(0)
          /\ Matches(a, c) )
        => ( /\ last.message = RATE_LIMITED
             /\ calls[a][c] = <<>>
             /\ logs[a][c] = <<>>
             /\ automation[a].totalExecutions = 0 )

(* C6: no DM or reply call is made for a comment when the automation's     *)
(* SUCCESS rows of the current day (hour) already number its daily         *)
(* (hourly) cap, on any entry point.                                       *)
C6_NoSendAtOrOverCap ==
    [][ \A a \in Automations, c \in Comments :
          MadeSendCall(a, c)
          => ( /\ TruthyNumber(automation[a].dailyLimit)
                    => Cardinality(SuccessRowsSince(a, Today)) < automation[a].dailyLimit[1]
               /\ TruthyNumber(automation[a].hourlyLimit)
                    => Cardinality(SuccessRowsSince(a, now)) < automation[a].hourlyLimit[1] ) ]_vars

(* C7: a denial by the limiter in processSingleComment is returned as      *)
(* processed = false, 'Rate limit reached', and persists nothing: no log,  *)
(* no counter or lastExecutedAt change, no external call.  A matched, not  *)
(* yet processed comment of an ACTIVE automation at its cap is so denied.  *)
C7_DenialPersistsNothing ==
    [][ \A a \in Automations, c \in Comments :
          (last'.op = "single" /\ Processed(a, c))
          => ( /\ last'.message = RATE_LIMITED
                    => ( /\ ~last'.processed
                         /\ logs' = logs /\ automation' = automation /\ calls' = calls )
               /\ ( /\ automation[a].status = "ACTIVE" /\ logs[a][c] = <<>> /\ Matches(a, c)
                    /\ \/ /\ TruthyNumber(automation[a].dailyLimit)
                          /\ Cardinality(SuccessRowsSince(a, Today)) >= automation[a].dailyLimit[1]
                       \/ /\ TruthyNumber(automation[a].hourlyLimit)
                          /\ Cardinality(SuccessRowsSince(a, now)) >= automation[a].hourlyLimit[1] )
                    => (last'.message = RATE_LIMITED /\ logs' = logs) ) ]_vars

(* C7 witness: processSingleComment has just answered a denial *)
C7_Witness ==
    /\ last.op = "single"
    /\ last.message = RATE_LIMITED
    /\ logs[last.aid][last.cid] = <<>>

(* C8: reply template, DM sent, reply call failed: processed = true,       *)
(* successfulExecutions + 1, failedExecutions unchanged, and a log of the  *)
(* comment carries the reply failure in its message.                       *)
C8_ReplyFailureKeepsSuccess ==
    [][ \A a \in Automations, c \in Comments :
          ( /\ last'.op = "single" /\ Processed(a, c) /\ calls[a][c] = <<>>
            /\ HasCall(calls', a, c, "dm", TRUE) /\ HasCall(calls', a, c, "reply", FALSE) )
          => ( /\ last'.processed
               /\ automation'[a].successfulExecutions = automation[a].successfulExecutions + 1
               /\ automation'[a].failedExecutions = automation[a].failedExecutions
               /\ HasLogWith(logs', a, c, "SUCCESS")
               /\ ~HasLogWith(logs', a, c, "FAILED")
               /\ \E i \in DOMAIN logs'[a][c], e \in ReplyResults \ {"ok"} :
                     logs'[a][c][i].message =
                        <<"Comment reply failed: ", e, " (DM sent successfully)">> ) ]_vars

(* C8 witness: the DM went out, the reply failed, the call returned success *)
C8_Witness ==
    /\ last.op = "single" /\ last.processed
    /\ HasCall(calls, last.aid, last.cid, "dm", TRUE)
    /\ HasCall(calls, last.aid, last.cid, "reply", FALSE)

C10_SuccessIffAnActionSucceeded ==
    [][ \A a \in Automations, c \in Comments :
          ( /\ last'.op = "single" /\ Processed(a, c)
            /\ logs[a][c] = <<>> /\ logs'[a][c] # <<>>
            /\ last'.message # <<"No keyword match">> )
          => LET anyOk == HasCall(calls', a, c, "dm", TRUE) \/ HasCall(calls', a, c, "reply", TRUE)
             IN  /\ automation'[a].totalExecutions = automation[a].totalExecutions + 1
                 /\ anyOk => /\ last'.processed
                             /\ automation'[a].successfulExecutions
                                   = automation[a].successfulExecutions + 1
                             /\ automation'[a].failedExecutions = automation[a].failedExecutions
                             /\ logs'[a][c][Len(logs'[a][c])].status = "SUCCESS"
                 /\ ~anyOk => /\ ~last'.processed
                              /\ automation'[a].failedExecutions
                                    = automation[a].failedExecutions + 1
                              /\ automation'[a].successfulExecutions
                                    = automation[a].successfulExecutions
                              /\ ~HasLogWith(logs', a, c, "SUCCESS") ]_vars

(* C10 witness: both the DM call and the reply call failed *)
C10_Witness ==
    /\ last.op = "single" /\ ~last.processed
    /\ HasCall(calls, last.aid, last.cid, "dm", FALSE)
    /\ HasCall(calls, last.aid, last.cid, "reply", FALSE)
    /\ automation[last.aid].failedExecutions = 1

----------------------------------------------------------------------------
(* the trigger processSingleComment and the batch loops match comment c to *)
MatchedTrigger(a, c) == findMatchingTrigger(CommentText(c), activeTriggers(a))

NonBlank(s) == \E i \in DOMAIN s : s[i] # " "

(* a trigger whose Response cannot produce a text: none, or neither CUSTOM *)
(* with a message nor AI_GENERATED                                         *)
BadResponse(t) ==
    \/ t.response = None
    \/ /\ t.response[1].responseType # "AI_GENERATED"
       /\ ~(/\ t.response[1].responseType = "CUSTOM"
            /\ t.response[1].customMessage # None
            /\ t.response[1].customMessage[1] # <<>>)

HasCallOfKind(K, a, c, kind) == \E i \in DOMAIN K[a][c] : K[a][c][i].kind = kind

(* the step is a processSingleComment that got past the guard, the matcher *)
(* and the limiter for the pair (a, c)                                     *)
RanDualAction(a, c) ==
    /\ last'.op = "single" /\ Processed(a, c)
    /\ logs[a][c] = <<>> /\ logs'[a][c] # <<>>
    /\ last'.message # <<"No keyword match">>

RowsWith(a, status) ==
    {ci \in UNION {{<<c, i>> : i \in DOMAIN logs[a][c]} : c \in Comments} :
        logs[a][ci[1]][ci[2]].status = status}

(* C11: in processSingleComment the reply call is attempted exactly when   *)
(* the matched trigger carries a reply template that is not blank,         *)
(* whether the DM was sent, the DM call failed or no text was resolved.    *)
C11_ReplyIffTemplate ==
    [][ \A a \in Automations, c \in Comments :
          RanDualAction(a, c)
          => LET t == MatchedTrigger(a, c)[1]
             IN  HasCallOfKind(calls', a, c, "reply")
                    <=> (t.commentReply # None /\ NonBlank(t.commentReply[1])) ]_vars

(* C11 witness: the reply went out although no DM text could be resolved *)
C11_Witness ==
    /\ last.op = "single"
    /\ HasCallOfKind(calls, last.aid, last.cid, "reply")
    /\ ~HasCallOfKind(calls, last.aid, last.cid, "dm")

(* C12: a comment matched to a trigger with no Response, or with a         *)
(* Response that is neither CUSTOM with a message nor AI_GENERATED, ends   *)
(* FAILED: a FAILED log, no SUCCESS log, failedExecutions incremented,     *)
(* with or without a reply template.                                       *)
C12_BadResponseAlwaysFailed ==
    \A a \in Automations, c \in Comments :
        ( /\ automation[a].type # "AUTO_LIKE"
          /\ logs[a][c] # <<>>
          /\ MatchedTrigger(a, c) # None
          /\ BadResponse(MatchedTrigger(a, c)[1]) )
        => ( /\ HasLogWith(logs, a, c, "FAILED")
             /\ ~HasLogWith(logs, a, c, "SUCCESS")
             /\ automation[a].failedExecutions >= 1
             /\ (last.aid = a /\ last.cid = c) => ~last.processed )

(* C13: with an AI_GENERATED Response and a plan that is neither PRO nor   *)
(* ENTERPRISE the generator is never called and no DM is sent; without a   *)
(* reply template processSingleComment returns FAILED with the permission  *)
(* error and increments failedExecutions.                                  *)
C13_NoPlanNoGeneration ==
    [][ \A a \in Automations, c \in Comments :
          ( /\ RanDualAction(a, c)
            /\ MatchedTrigger(a, c)[1].response # None
            /\ MatchedTrigger(a, c)[1].response[1].responseType = "AI_GENERATED"
            /\ automation[a].plan \notin {"PRO", "ENTERPRISE"} )
          => ( /\ ~HasCallOfKind(calls', a, c, "generate")
               /\ ~HasCallOfKind(calls', a, c, "dm")
               /\ MatchedTrigger(a, c)[1].commentReply = None
                    => ( /\ ~last'.processed
                         /\ last'.message = <<"Failed: ", "AI responses require PRO plan">>
                         /\ automation'[a].failedExecutions
                               = automation[a].failedExecutions + 1
                         /\ automation'[a].successfulExecutions
                               = automation[a].successfulExecutions
                         /\ ~HasLogWith(logs', a, c, "SUCCESS") ) ) ]_vars

(* C13 witness: a FREE-plan automation was refused a generated response *)
C13_Witness ==
    /\ last.op = "single"
    /\ last.message = <<"Failed: ", "AI responses require PRO plan">>
    /\ automation[last.aid].plan = "FREE"
    /\ automation[last.aid].failedExecutions = 1

(* C16: whenever no invocation is in progress, successfulExecutions is the *)
(* number of the automation's SUCCESS rows and failedExecutions the number *)
(* of its FAILED rows.                                                     *)
C16_CountersEqualLogCounts ==
    run = Idle =>
        \A a \in Automations :
            /\ automation[a].successfulExecutions = Cardinality(RowsWith(a, "SUCCESS"))
            /\ automation[a].failedExecutions = Cardinality(RowsWith(a, "FAILED"))

(* C17: the processing of a not yet processed comment that no active       *)
(* trigger's keyword matches writes exactly one log, SKIPPED 'No keyword   *)
(* match', changes no counter, makes no call, and the loop it runs in goes *)
(* on to its next item.                                                    *)
C17_NoMatchSkips ==
    [][ \A a \in Automations, c \in Comments :
          ( /\ Processed(a, c) /\ last'.op # "none"
            /\ automation[a].status = "ACTIVE"
            /\ logs[a][c] = <<>>
            /\ ~Matches(a, c) )
          => ( /\ Len(logs'[a][c]) = 1
               /\ logs'[a][c][1].status = "SKIPPED"
               /\ logs'[a][c][1].message = <<"No keyword match">>
               /\ \A d \in Comments \ {c} : logs'[a][d] = logs[a][d]
               /\ automation' = automation
               /\ calls' = calls
               /\ ~last'.processed
               /\ run # Idle => run'.queue = Tail(run.queue) ) ]_vars

(* C17 witness: a batch went on after a comment without a match *)
C17_Witness ==
    /\ last.op \in {"dm", "reply"}
    /\ last.message = <<"No keyword match">>
    /\ Len(logs[last.aid][last.cid]) = 1
    /\ automation[last.aid].totalExecutions >= 1

(* C18: an iteration of the batch loops does to the store and to the       *)
(* platform what processSingleComment does for the same automation,        *)
(* comment and store, for some outcome of the external calls.              *)
C18_BatchIsSingleCommentPath ==
    [][ (run.kind \in {"dm", "reply"} /\ run' # run)
        => \E dmRes \in DMResults, replyRes \in ReplyResults, genRes \in GenResults :
              LET o == processSingleComment(logs, automation, calls, run.aid,
                                            Head(run.queue), dmRes, replyRes, genRes)
              IN  logs' = o.logs /\ automation' = o.automation /\ calls' = o.calls ]_vars

C20_OnlyTriggersOfThePost ==
    [][ \A a \in Automations, c \in Comments :
          (run # Idle /\ MadeSendCall(a, c))
          => \E i \in DOMAIN triggers[a] :
                /\ triggers[a][i].isActive
                /\ triggers[a][i].postId = Some(CommentPost(c))
                /\ triggers[a][i].keyword # None
                /\ matchKeyword(CommentText(c), triggers[a][i].keyword[1].keyword,
                                triggers[a][i].keyword[1].matchType,
                                triggers[a][i].keyword[1].caseSensitive) ]_vars

(* C15: for a delivery with a valid signature the 200 is sent before any   *)
(* per-comment processing step, and nothing that happens during the        *)
(* processing changes or adds to what was sent.                            *)
C15_AckBeforeProcessing ==
    [][ /\ run.kind = "webhook" => (res = <<200>> /\ res' = res)
        /\ run'.kind = "webhook" => res' = <<200>>
        /\ (last'.op = "webhook" /\ last' # last) => res' = <<200>>
        /\ res' \in {<<>>, <<200>>, <<403>>} ]_vars

(* C15 witness: a delivery was acknowledged and its processing failed *)
C15_Witness ==
    /\ res = <<200>>
    /\ \/ last.op = "webhook" /\ last.message = <<"Webhook handling error">>
       \/ /\ last.op = "single" /\ ~last.processed
          /\ HasCall(calls, last.aid, last.cid, "dm", FALSE)

(* C14: whatever fails while one automation or one comment is processed -  *)
(* a platform call, the configuration, an operation of the store - the     *)
(* loop goes on to its next item: the sibling automations of the webhook   *)
(* path, the remaining comments of the batch paths.                        *)
C14_LoopGoesOn ==
    [][ (run # Idle /\ run' # run) => run'.queue = Tail(run.queue) ]_vars

----------------------------------------------------------------------------
(* What one step adds for a pair: the external calls, the log rows *)
AddedCalls(a, c) == SubSeq(calls'[a][c], Len(calls[a][c]) + 1, Len(calls'[a][c]))
AddedRows(a, c) == SubSeq(logs'[a][c], Len(logs[a][c]) + 1, Len(logs'[a][c]))

CountKind(K, kind) == Cardinality({i \in DOMAIN K : K[i].kind = kind})
FailedCall(K, kind) == \E i \in DOMAIN K : K[i].kind = kind /\ ~K[i].ok
SentCall(K, kind) == \E i \in DOMAIN K : K[i].kind = kind /\ K[i].ok

(* a row of the given status whose message holds one of the error texts *)
RowCarrying(R, statuses, errors) ==
    \E j \in DOMAIN R :
        /\ R[j].status \in statuses
        /\ \E i \in DOMAIN R[j].message : R[j].message[i] \in errors

(* C22: one processing step for a pair (processSingleComment, or one       *)
(* iteration of a batch loop) calls send-DM at most once and reply at most *)
(* once whatever they answer; a failed DM call leaves a FAILED row whose   *)
(* message holds the platform's error text, and so does a failed reply     *)
(* call when no DM went out (a row holding the text in any case).          *)
C22_FailedWithoutRetry ==
    [][ \A a \in Automations, c \in Comments :
           LET K == AddedCalls(a, c)
               R == AddedRows(a, c)
           IN  /\ CountKind(K, "dm") <= 1
               /\ CountKind(K, "reply") <= 1
               /\ FailedCall(K, "dm") => RowCarrying(R, {"FAILED"}, DMResults \ {"ok"})
               /\ FailedCall(K, "reply") =>
                      RowCarrying(R, {"FAILED", "SUCCESS"}, ReplyResults \ {"ok"})
               /\ (FailedCall(K, "reply") /\ ~SentCall(K, "dm")) =>
                      RowCarrying(R, {"FAILED"}, ReplyResults \ {"ok"}) ]_vars

(* C22 witness: both platform calls were made once, both failed, and each  *)
(* left its FAILED row                                                     *)
C22_Witness ==
    \E a \in Automations, c \in Comments :
        /\ CountKind(calls[a][c], "dm") = 1 /\ CountKind(calls[a][c], "reply") = 1
        /\ FailedCall(calls[a][c], "dm") /\ FailedCall(calls[a][c], "reply")
        /\ RowCarrying(logs[a][c], {"FAILED"}, DMResults \ {"ok"})
        /\ RowCarrying(logs[a][c], {"FAILED"}, ReplyResults \ {"ok"})

----------------------------------------------------------------------------
(* C23: nothing is done on behalf of an automation that is not ACTIVE: it  *)
(* has no external call, no log row and untouched counters; a webhook      *)
(* delivery loops only over ACTIVE automations that have an active trigger *)
(* on the comment's post, a batch loop runs only for an ACTIVE automation, *)
(* and an entry point invoked for another automation answered              *)
(* 'Automation not active'.                                                *)
C23_NothingForInactive ==
    /\ \A a \in Automations :
           automation[a].status # "ACTIVE" =>
               /\ \A c \in Comments : logs[a][c] = <<>> /\ calls[a][c] = <<>>
               /\ automation[a].totalExecutions = 0
               /\ automation[a].successfulExecutions = 0
               /\ automation[a].failedExecutions = 0
               /\ automation[a].lastExecutedAt = None
               /\ (last.aid = a /\ last.op \in {"single", "dm", "reply"}) =>
                      last.message = NOT_ACTIVE
    /\ run.kind = "webhook" =>
           \A i \in DOMAIN run.queue :
               /\ automation[run.queue[i]].status = "ACTIVE"
               /\ \E j \in DOMAIN triggers[run.queue[i]] :
                      /\ triggers[run.queue[i]][j].isActive
                      /\ triggers[run.queue[i]][j].postId = Some(CommentPost(run.cid))
    /\ run.kind \in {"dm", "reply"} => automation[run.aid].status = "ACTIVE"

(* C23 witness: the batch path was invoked for a paused automation, after  *)
(* a webhook delivery for its post had found no automation                 *)
C23_Witness ==
    /\ last.op = "dm" /\ last.aid \in Automations
    /\ automation[last.aid].status = "PAUSED"
    /\ last.message = NOT_ACTIVE
    /\ res = <<200>>

----------------------------------------------------------------------------
(* C26: for an automation with an hourly cap H and no daily cap, the       *)
(* limiter counts the SUCCESS rows written since the top of the current    *)
(* clock hour and nothing older: processSingleComment on a matching, not   *)
(* yet processed comment is denied exactly when that count has reached H.  *)
C26_HourlyCountsThisHourOnly ==
    [][ \A a \in Automations, c \in Comments :
           ( /\ last'.op = "single" /\ Processed(a, c)
             /\ automation[a].status = "ACTIVE" /\ logs[a][c] = <<>> /\ Matches(a, c)
             /\ automation[a].dailyLimit = None
             /\ TruthyNumber(automation[a].hourlyLimit) )
           => ( last'.message = RATE_LIMITED
                  <=> Cardinality(SuccessRowsSince(a, now)) >= automation[a].hourlyLimit[1] ) ]_vars

----------------------------------------------------------------------------
(* C29: a processing step of any entry point leaves the triggers, with     *)
(* their keywords and responses, and the status, type, limits and plan of  *)
(* every automation as they were; of an Automation row it changes the      *)
(* three counters, which never decrease, and lastExecutedAt only.          *)
C29_OnlyCountersChange ==
    [][ /\ triggers' = triggers
        /\ DOMAIN automation' = DOMAIN automation
        /\ \A a \in Automations :
              /\ automation'[a].status = automation[a].status
              /\ automation'[a].type = automation[a].type
              /\ automation'[a].dailyLimit = automation[a].dailyLimit
              /\ automation'[a].hourlyLimit = automation[a].hourlyLimit
              /\ automation'[a].plan = automation[a].plan
              /\ automation'[a].totalExecutions >= automation[a].totalExecutions
              /\ automation'[a].successfulExecutions >= automation[a].successfulExecutions
              /\ automation'[a].failedExecutions >= automation[a].failedExecutions ]_vars

(* C29 witness: successes and failures were counted for an automation *)
C29_Witness ==
    \E a \in Automations :
        /\ automation[a].successfulExecutions >= 1
        /\ automation[a].failedExecutions >= 1
        /\ automation[a].lastExecutedAt # None
        /\ automation[a].status = "ACTIVE"

----------------------------------------------------------------------------
(* The match modes as the specification states them *)
Folded(str, caseSensitive) ==
    IF caseSensitive THEN str ELSE [i \in DOMAIN str |-> Lower(str[i])]

IsSubstring(k, t) == \E i \in 0..Len(t) : \E j \in i..Len(t) : SubSeq(t, i + 1, j) = k
IsPrefix(k, t) == \E j \in 0..Len(t) : SubSeq(t, 1, j) = k
IsSuffix(k, t) == \E i \in 0..Len(t) : SubSeq(t, i + 1, Len(t)) = k

ModeResult(text, keyword, matchType, caseSensitive) ==
    LET t == Folded(text, caseSensitive)
        k == Folded(keyword, caseSensitive)
    IN  IF matchType = "EXACT" THEN t = k
        ELSE IF matchType = "STARTS_WITH" THEN IsPrefix(k, t)
        ELSE IF matchType = "ENDS_WITH" THEN IsSuffix(k, t)
        ELSE IsSubstring(k, t)

(* C25: for every text, keyword and caseSensitive flag, matchKeyword       *)
(* answers equality for EXACT, substring for CONTAINS, prefix for          *)
(* STARTS_WITH, suffix for ENDS_WITH and the CONTAINS answer for an        *)
(* unknown mode, both strings being lower-cased first exactly when         *)
(* caseSensitive is false.                                                 *)
C25_ModeSemantics ==
    (probe.fn = "matchKeyword" /\ probe.matchType # "REGEX")
    => \A i \in DOMAIN probe.results :
           probe.results[i] = ModeResult(probe.text, probe.keyword, probe.matchType,
                                         probe.caseSensitive)

(* C25 witness: an unknown mode answered true for a keyword that is inside *)
(* the text only once both are lower-cased                                 *)
C25_Witness ==
    /\ probe.fn = "matchKeyword"
    /\ probe.matchType \notin {"EXACT", "CONTAINS", "STARTS_WITH", "ENDS_WITH", "REGEX"}
    /\ ~probe.caseSensitive
    /\ probe.results = <<TRUE>>
    /\ probe.text # probe.keyword
    /\ ~IsSubstring(probe.keyword, probe.text)

----------------------------------------------------------------------------
(* the positions of the triggers that have a keyword matching the text *)
Hits(text, trigs) ==
    {i \in DOMAIN trigs :
        /\ trigs[i].keyword # None
        /\ matchKeyword(text, trigs[i].keyword[1].keyword, trigs[i].keyword[1].matchType,
                        trigs[i].keyword[1].caseSensitive)}

(* C24: findMatchingTrigger returns the trigger at the lowest position     *)
(* among those that have a keyword matching the comment text - never a     *)
(* trigger without keyword, a later trigger when the earlier ones do not   *)
(* match - and null when there is none.                                    *)
C24_FirstMatchInStoredOrder ==
    probe.fn = "findMatchingTrigger"
    => \A n \in DOMAIN probe.results :
           LET hits == Hits(probe.text, triggers[1])
           IN  IF hits = {}
               THEN probe.results[n] = None
               ELSE \E i \in hits : /\ \A j \in hits : i <= j
                                    /\ probe.results[n] = Some(triggers[1][i])

(* C24 witness: the first trigger has a keyword that does not match, the   *)
(* second one is returned                                                  *)
C24_Witness ==
    /\ probe.fn = "findMatchingTrigger"
    /\ Len(triggers[1]) = 2
    /\ triggers[1][1].keyword # None
    /\ probe.results = <<Some(triggers[1][2])>>

----------------------------------------------------------------------------
(* The template with its placeholders replaced in one pass, the inserted   *)
(* values being copied as they are                                         *)
RECURSIVE Substituted(_, _, _, _)
Substituted(template, username, text, time) ==
    IF template = <<>> THEN <<>>
    ELSE IF startsWith(template, PH_USERNAME)
    THEN username \o Substituted(SubSeq(template, Len(PH_USERNAME) + 1, Len(template)),
                                 username, text, time)
    ELSE IF startsWith(template, PH_COMMENT)
    THEN text \o Substituted(SubSeq(template, Len(PH_COMMENT) + 1, Len(template)),
                             username, text, time)
    ELSE IF startsWith(template, PH_TIME)
    THEN time \o Substituted(SubSeq(template, Len(PH_TIME) + 1, Len(template)),
                             username, text, time)
    ELSE <<template[1]>> \o Substituted(Tail(template), username, text, time)

(* C27: personalizeMessage returns the template with every {username},     *)
(* {comment} and {time} of the template replaced by the handle, the raw    *)
(* comment text and the current time; the inserted handle and text appear  *)
(* unchanged, placeholder-like text inside them is not substituted.        *)
C27_InsertedValuesVerbatim ==
    probe.fn = "personalizeMessage"
    => \A i \in DOMAIN probe.results :
           probe.results[i].value = Substituted(probe.template, probe.username, probe.text,
                                                probe.results[i].time)

----------------------------------------------------------------------------
(* the rows of a pair whose message starts with the given piece *)
RowsStarting(a, c, status, piece) ==
    {i \in DOMAIN logs[a][c] :
        logs[a][c][i].status = status /\ logs[a][c][i].message[1] = piece}

(* C21: the idempotency check of an invocation looks at the stored logs    *)
(* only: an invocation for a matching comment of an ACTIVE automation      *)
(* within its limits passes it exactly when no log of the pair is stored,  *)
(* also while another invocation for the same pair is between its own      *)
(* check and its writes; an invocation that passed sends and writes its    *)
(* log whatever was written meanwhile.  So two invocations from two entry  *)
(* points can send the DM twice and leave two logs for one pair.           *)
C21_CheckSeesStoredLogsOnly ==
    [][ \A s \in Slots :
           LET e == inflight[s]
               c == Head(e.queue)
           IN  /\ ( /\ e.pc = "check" /\ inflight'[s] # e
                    /\ Matches(e.aid, c)
                    /\ checkLimits(logs, automation, e.aid) )
                  => ( inflight'[s] = [e EXCEPT !.pc = "act"] <=> logs[e.aid][c] = <<>> )
               /\ ( e.pc = "act" /\ inflight'[s] # e )
                  => ( /\ Len(logs'[e.aid][c]) > Len(logs[e.aid][c])
                       /\ Len(calls'[e.aid][c]) > Len(calls[e.aid][c]) ) ]_vars

(* C21 witness: a webhook delivery and a batch run have both sent the DM   *)
(* for the same comment and each has written its SUCCESS log               *)
C21_Witness ==
    \E a \in Automations, c \in Comments :
        /\ Cardinality({i \in DOMAIN calls[a][c] :
                           calls[a][c][i].kind = "dm" /\ calls[a][c][i].ok}) = 2
        /\ Len(logs[a][c]) = 2
        /\ RowsStarting(a, c, "SUCCESS", "Actions completed: ") # {}
        /\ RowsStarting(a, c, "SUCCESS", "DM sent to @") # {}
        /\ inflight = NoInvocations

(* C30: with dailyLimit = N, the comments that got a DM from the           *)
(* automation within one calendar day never number more than N, whatever   *)
(* the interleaving of webhook deliveries and batch runs.                  *)
C30_DailyCapUnderConcurrency ==
    \A a \in Automations :
        TruthyNumber(automation[a].dailyLimit)
        => Cardinality({c \in Comments : HasCall(calls, a, c, "dm", TRUE)})
               <= automation[a].dailyLimit[1]

----------------------------------------------------------------------------
(* C31: with a store that does not fail, a processing step that made a DM  *)
(* or reply call for a pair (processSingleComment, or one iteration of a   *)
(* batch loop) has written at least one log row for the pair when it       *)
(* returns; and a step of any entry point that finds a row for a pair      *)
(* makes no external call for it and writes nothing more.                  *)
C31_AttemptLeavesARecord ==
    [][ \A a \in Automations, c \in Comments :
           /\ MadeSendCall(a, c) => AddedRows(a, c) # <<>>
           /\ logs[a][c] # <<>> =>
                  /\ calls'[a][c] = calls[a][c]
                  /\ logs'[a][c] = logs[a][c] ]_vars

(* C31 witness: the only call for the pair is a DM call that failed, it    *)
(* left a FAILED row and no SUCCESS row, and a later invocation of         *)
(* processSingleComment for the pair answered 'Already processed'          *)
C31_Witness ==
    \E a \in Automations, c \in Comments :
        /\ Len(calls[a][c]) = 1
        /\ FailedCall(calls[a][c], "dm")
        /\ HasLogWith(logs, a, c, "FAILED")
        /\ ~HasLogWith(logs, a, c, "SUCCESS")
        /\ last.op = "single" /\ last.aid = a /\ last.cid = c
        /\ last.message = <<"Already processed">>

----------------------------------------------------------------------------
(* C32: once a pair has a SKIPPED row 'No keyword match', no step of any   *)
(* entry point makes a DM or reply call for the pair, also after the       *)
(* triggers of the automation were replaced or a keyword was edited so     *)
(* that the comment's text matches.                                        *)
C32_SkippedStaysSkipped ==
    [][ \A a \in Automations, c \in Comments :
           (\E i \in DOMAIN logs[a][c] :
                /\ logs[a][c][i].status = "SKIPPED"
                /\ logs[a][c][i].message = <<"No keyword match">>)
           => ~MadeSendCall(a, c) ]_vars

(* C32 witness: the comment was skipped, the triggers now match its text,  *)
(* and a later processSingleComment for the pair answered 'Already         *)
(* processed' without a call                                               *)
C32_Witness ==
    \E a \in Automations, c \in Comments :
        /\ HasLogWith(logs, a, c, "SKIPPED")
        /\ Matches(a, c)
        /\ automation[a].type = "COMMENT_TO_DM"
        /\ last.op = "single" /\ last.aid = a /\ last.cid = c
        /\ last.message = <<"Already processed">>
        /\ calls[a][c] = <<>>

----------------------------------------------------------------------------
(* the latest processing step was processSingleComment denying the pair    *)
(* (a, c); only the clock has moved since                                  *)
LastDenied(a, c) ==
    /\ last.op = "single" /\ last.aid = a /\ last.cid = c
    /\ last.message = RATE_LIMITED

(* the SUCCESS rows of the current calendar day and of the current clock   *)
(* hour are below the caps the automation has                              *)
WindowsOpen(a) ==
    /\ TruthyNumber(automation[a].dailyLimit) =>
           Cardinality(SuccessRowsSince(a, Today)) < automation[a].dailyLimit[1]
    /\ TruthyNumber(automation[a].hourlyLimit) =>
           Cardinality(SuccessRowsSince(a, now)) < automation[a].hourlyLimit[1]

(* C33: a matching comment that processSingleComment denied for the rate   *)
(* limit has no row; once the limiting window (the calendar day of a daily *)
(* cap, the clock hour of an hourly cap) has reset, an invocation of       *)
(* processSingleComment for the pair is not denied, whatever the platform  *)
(* answers, and the DM action runs and leaves its row.                     *)
C33_DeniedIsRetriedAfterReset ==
    \A a \in Automations, c \in Comments :
        (LastDenied(a, c) /\ WindowsOpen(a)) =>
            /\ logs[a][c] = <<>>
            /\ \A dmRes \in DMResults, replyRes \in ReplyResults, genRes \in GenResults :
                   LET out == processSingleComment(logs, automation, calls, a, c,
                                                   dmRes, replyRes, genRes)
                   IN  /\ out.result.message # RATE_LIMITED
                       /\ out.logs[a][c] # <<>>

----------------------------------------------------------------------------
(* C34: every SUCCESS row written by processSingleComment or by an         *)
(* iteration of either batch loop names what the step did: its action is   *)
(* 'sent_dm' exactly when the step's DM call succeeded, and                *)
(* 'replied_comment' exactly when only a reply call succeeded.             *)
C34_ActionNamesWhatWasDone ==
    [][ \A a \in Automations, c \in Comments :
           (last'.op \in {"single", "dm", "reply"} /\ Processed(a, c)) =>
               LET K == AddedCalls(a, c)
                   R == AddedRows(a, c)
               IN  \A j \in DOMAIN R :
                       R[j].status = "SUCCESS" =>
                           /\ R[j].action = "sent_dm" <=> SentCall(K, "dm")
                           /\ R[j].action = "replied_comment" <=>
                                  (SentCall(K, "reply") /\ ~SentCall(K, "dm")) ]_vars

----------------------------------------------------------------------------
----------------------------------------------------------------------------
(* C36: with a store that does not fail, an invocation of                  *)
(* processSingleComment for an ACTIVE automation and a comment that has no *)
(* row, matches a keyword and is not denied by the limiter raises          *)
(* totalExecutions by exactly 1, whatever the DM call and the reply call   *)
(* answer and whether or not a reply template is set; an invocation that   *)
(* stops earlier leaves the counters as they were.                         *)
C36_CountedExactlyOnce ==
    [][ \A a \in Automations, c \in Comments :
           (last'.op = "single" /\ Processed(a, c)) =>
               LET passed == /\ automation[a].status = "ACTIVE"
                             /\ logs[a][c] = <<>>
                             /\ Matches(a, c)
                             /\ last'.message # RATE_LIMITED
                   n == IF passed THEN 1 ELSE 0
               IN  /\ automation'[a].totalExecutions = automation[a].totalExecutions + n
                   /\ automation'[a].successfulExecutions + automation'[a].failedExecutions
                        = automation[a].successfulExecutions
                            + automation[a].failedExecutions + n
                   /\ ~passed => automation'[a] = automation[a] ]_vars

(* C36 witness: processSingleComment made a DM call and a reply call, both *)
(* failed, and the one execution was counted as a failure                  *)
C36_Witness ==
    \E a \in Automations, c \in Comments :
        /\ last.op = "single" /\ last.aid = a /\ last.cid = c
        /\ ~last.processed
        /\ FailedCall(calls[a][c], "dm") /\ FailedCall(calls[a][c], "reply")
        /\ automation[a].totalExecutions = 1
        /\ automation[a].failedExecutions = 1
        /\ automation[a].successfulExecutions = 0

----------------------------------------------------------------------------
(* the step is a processSingleComment for (a, c) whose body threw and      *)
(* whose outer catch ran to its last statement, the counter update, before *)
(* it rethrew                                                              *)
EscapedAndHandled(a, c) ==
    /\ last'.op = "single" /\ Processed(a, c)
    /\ last'.message = <<"throw", STORE_ERROR>>
    /\ automation'[a] # automation[a]

CountStatus(R, status) == Cardinality({j \in DOMAIN R : R[j].status = status})

(* C37: when a store call fails inside processSingleComment and the error  *)
(* reaches the outer catch, the invocation writes exactly one FAILED row   *)
(* for the comment and no SUCCESS row, raises failedExecutions by one and  *)
(* successfulExecutions not at all, and rethrows.                          *)
C37_EscapedErrorIsOneFailure ==
    [][ \A a \in Automations, c \in Comments :
           EscapedAndHandled(a, c) =>
               /\ CountStatus(AddedRows(a, c), "FAILED") = 1
               /\ CountStatus(AddedRows(a, c), "SUCCESS") = 0
               /\ automation'[a].failedExecutions = automation[a].failedExecutions + 1
               /\ automation'[a].successfulExecutions = automation[a].successfulExecutions ]_vars

----------------------------------------------------------------------------
(* C38: the webhook controller's matchKeyword, used for AUTO_LIKE          *)
(* automations, and the platform service's matchKeyword, used by the       *)
(* engine, return the same boolean for every text, keyword, match mode     *)
(* (unknown modes and REGEX included) and caseSensitive flag.              *)
C38_MatchersAgree ==
    probe.fn = "bothMatchers" =>
        \A i \in DOMAIN probe.results :
            probe.results[i].controller = probe.results[i].service

(* C38 witness: both matchers were called with an unknown mode on a        *)
(* keyword that differs from the text in case only, and both answered true *)
C38_Witness ==
    /\ probe.fn = "bothMatchers"
    /\ probe.matchType \notin {"EXACT", "CONTAINS", "STARTS_WITH", "ENDS_WITH", "REGEX"}
    /\ ~probe.caseSensitive
    /\ probe.text # probe.keyword
    /\ Len(probe.text) = Len(probe.keyword)
    /\ probe.results = <<[controller |-> TRUE, service |-> TRUE]>>

====
